---------------------------- MODULE Spec2Model ----------------------------
(***************************************************************************)
(* Model of the Tesla battery dashboard (src/Dashboard.py).                *)
(*                                                                         *)
(* Text.  A string is a sequence of atoms.  An atom is a single character  *)
(* ("1", ",", "%", " ", "_") or a whole word of letters ("Months", "km",   *)
(* "Username", "inf", "abc").  The text of a string is the concatenation   *)
(* of its atoms; words are never split, so two strings are equal exactly   *)
(* when their atom sequences are equal.                                    *)
(*                                                                         *)
(* Values.  A DataFrame cell is a tagged record: a string (object dtype),  *)
(* a finite number n/d (a reduced fraction), NaN, or +/- infinity.         *)
(* 0.0 and -0.0 compare equal in Python and are both the number 0/1.       *)
(***************************************************************************)
EXTENDS Integers, Sequences, FiniteSets, TLC

VARIABLES
    data,             \* sheet.get_all_values(): <<header, row, row, ...>>
    username,         \* the text of the "Search by Username" field
    pc,               \* position of the script
    ret,              \* what fetch_data did: returned, or raised
    widgets,          \* the sidebar widgets as the user has set them
    outcome,          \* the script body: its datasets, or its exception
    bars,             \* the bar chart's frame: one row per group
    telemetry,        \* the CSV files of the selected folders, as the server gives them
    page,             \* the Performance page: what its last run has come to
    metadata_file,    \* the file metadata_cache.json on the disk
    session           \* the browser session: the clock, what st.cache_data holds
                      \* for fetch_data, and what the user did to start the run

-----------------------------------------------------------------------------
(* Numbers *)

Abs(x) == IF x < 0 THEN -x ELSE x

RECURSIVE Gcd(_, _)
Gcd(a, b) == IF b = 0 THEN a ELSE Gcd(b, a % b)

RECURSIVE Pow10(_)
Pow10(k) == IF k = 0 THEN 1 ELSE 10 * Pow10(k - 1)

StrV(s) == [t |-> "str", s |-> s, n |-> 0, d |-> 1]
NaN     == [t |-> "nan", s |-> << >>, n |-> 0, d |-> 1]
PosInf  == [t |-> "inf", s |-> << >>, n |-> 1, d |-> 1]
NegInf  == [t |-> "inf", s |-> << >>, n |-> -1, d |-> 1]

\* the float n/d, d > 0, as a reduced fraction
Num(n, d) ==
    LET g == Gcd(Abs(n), d)
    IN  [t |-> "num", s |-> << >>, n |-> n \div g, d |-> d \div g]

\* the result of a conversion that succeeded; ok is FALSE when it raised
Ok(v) == [ok |-> TRUE, v |-> v]

IsStr(v) == v.t = "str"
IsNum(v) == v.t = "num"
IsNaN(v) == v.t = "nan"
IsInf(v) == v.t = "inf"

-----------------------------------------------------------------------------
(* Text *)

Digits == {"0", "1", "2", "3", "4", "5", "6", "7", "8", "9"}

DigitVal(c) ==
    CASE c = "0" -> 0 [] c = "1" -> 1 [] c = "2" -> 2 [] c = "3" -> 3
      [] c = "4" -> 4 [] c = "5" -> 5 [] c = "6" -> 6 [] c = "7" -> 7
      [] c = "8" -> 8 [] c = "9" -> 9

DigitChar(k) ==
    CASE k = 0 -> "0" [] k = 1 -> "1" [] k = 2 -> "2" [] k = 3 -> "3"
      [] k = 4 -> "4" [] k = 5 -> "5" [] k = 6 -> "6" [] k = 7 -> "7"
      [] k = 8 -> "8" [] k = 9 -> "9"

\* str(k) for an integer k >= 0
RECURSIVE IntStr(_)
IntStr(k) == IF k < 10 THEN <<DigitChar(k)>>
             ELSE IntStr(k \div 10) \o <<DigitChar(k % 10)>>

\* the value of a string of decimal digits
RECURSIVE DigitsVal(_)
DigitsVal(s) ==
    IF s = << >> THEN 0
    ELSE 10 * DigitsVal(SubSeq(s, 1, Len(s) - 1)) + DigitVal(s[Len(s)])

StartsWith(s, p) == Len(s) >= Len(p) /\ SubSeq(s, 1, Len(p)) = p

\* x in list
InList(x, list) == \E i \in 1..Len(list) : list[i] = x

\* list.index(x): the position of the first occurrence
Index(list, x) == CHOOSE i \in 1..Len(list) :
                      list[i] = x /\ \A j \in 1..(i - 1) : list[j] # x

\* str.replace(pat, rep): every non-overlapping occurrence, left to right
RECURSIVE Replace(_, _, _)
Replace(s, pat, rep) ==
    IF s = << >> THEN << >>
    ELSE IF StartsWith(s, pat)
         THEN rep \o Replace(SubSeq(s, Len(pat) + 1, Len(s)), pat, rep)
         ELSE <<s[1]>> \o Replace(SubSeq(s, 2, Len(s)), pat, rep)

\* str.strip(): leading and trailing whitespace removed
RECURSIVE LStrip(_)
LStrip(s) == IF s # << >> /\ s[1] = " " THEN LStrip(Tail(s)) ELSE s

RECURSIVE RStrip(_)
RStrip(s) == IF s # << >> /\ s[Len(s)] = " "
             THEN RStrip(SubSeq(s, 1, Len(s) - 1)) ELSE s

Strip(s) == RStrip(LStrip(s))


\* str.lower(), over the atoms with an upper case
LowerStr(s) ==
    [i \in 1..Len(s) |->
        CASE s[i] = "A" -> "a" [] s[i] = "B" -> "b" [] OTHER -> s[i]]

\* pat occurs in s
Contains(s, pat) ==
    \E i \in 1..(Len(s) - Len(pat) + 1) : SubSeq(s, i, i + Len(pat) - 1) = pat

\* re.search('(\d+)', s): the first maximal run of digits, << >> when s has none
FirstDigitRun(s) ==
    IF \A i \in 1..Len(s) : s[i] \notin Digits THEN << >>
    ELSE LET i == CHOOSE k \in 1..Len(s) :
                      s[k] \in Digits /\ \A j \in 1..(k - 1) : s[j] \notin Digits
             j == CHOOSE k \in i..Len(s) :
                      /\ \A m \in i..k : s[m] \in Digits
                      /\ (k = Len(s) \/ s[k + 1] \notin Digits)
         IN  SubSeq(s, i, j)

-----------------------------------------------------------------------------
(* Text to number.  Both float(str) and pandas.to_numeric accept, over the  *)
(* atoms used here: an optional sign, then "inf", "nan", or decimal digits  *)
(* with at most one period and at least one digit.                          *)

HasSign(s) == s # << >> /\ s[1] \in {"-", "+"}

Unsigned(s) == IF HasSign(s) THEN Tail(s) ELSE s

DotSet(b) == {i \in 1..Len(b) : b[i] = "."}

IsDecimal(b) ==
    /\ Cardinality(DotSet(b)) <= 1
    /\ \A i \in 1..Len(b) : b[i] \in Digits \/ b[i] = "."
    /\ \E i \in 1..Len(b) : b[i] \in Digits

\* the float spelled by the decimal b, with the sign given
DecimalVal(b, sign) ==
    Num(sign * DigitsVal(SelectSeq(b, LAMBDA c : c # ".")),
        Pow10(IF DotSet(b) = {} THEN 0
              ELSE Len(b) - (CHOOSE i \in DotSet(b) : TRUE)))

\* the text after its sign: [ok, v], ok is FALSE when the text is no number
ParseUnsigned(b, sign) ==
    IF b = <<"inf">> THEN Ok(IF sign < 0 THEN NegInf ELSE PosInf)
    ELSE IF b = <<"nan">> THEN Ok(NaN)
    ELSE IF IsDecimal(b) THEN Ok(DecimalVal(b, sign))
    ELSE [ok |-> FALSE, v |-> NaN]

ParseFloat(s) ==
    ParseUnsigned(Unsigned(s), IF HasSign(s) /\ s[1] = "-" THEN -1 ELSE 1)

\* float(s) of Series.astype(float): surrounding whitespace is ignored
PyFloat(s) == ParseFloat(Strip(s))

\* errors='coerce': what does not parse is NaN
Coerce(parsed) == IF parsed.ok THEN parsed.v ELSE NaN

\* pd.to_numeric(..., errors='coerce') of one cell
ToNumeric(v) == IF IsStr(v) THEN Coerce(ParseFloat(v.s)) ELSE v

-----------------------------------------------------------------------------
(* Column names of the 'Database' worksheet that the script reads *)

cUsername    == <<"Username">>
cTesla       == <<"Tesla">>
cVersion     == <<"Version">>
cBattery     == <<"Battery">>
cAge         == <<"Age">>
cOdometer    == <<"Odometer">>
cCycles      == <<"Cycles">>
cDegradation == <<"Degradation">>
cRatedRange  == <<"Rated", " ", "Range">>
cCapacity    == <<"Capacity", " ", "Net", " ", "Now">>
cSOCLimit    == <<"Daily", " ", "SOC", " ", "Limit">>
cDCRatio     == <<"DC", " ", "Ratio">>
cBatteryPack == <<"Battery", " ", "Pack">>

\* Python's None, as a column name no header can spell
None == <<"<None>">>

exclude_columns ==
    {<<"B">>, <<"G">>, <<"H">>, <<"I">>, <<"J">>, <<"O">>, <<"P">>, <<"W">>,
     <<"X">>, <<"Y">>}

-----------------------------------------------------------------------------
(* fetch_data, lines 67-94: column selection and header de-duplication *)

filtered_header(header) ==
    SelectSeq(header, LAMBDA col :
        col # << >> /\ col[1] # "_" /\ col \notin exclude_columns)

keep_indices(header) ==
    LET fh == filtered_header(header)
    IN  [k \in 1..Len(fh) |-> Index(header, fh[k])]

filtered_data(sheet) ==
    LET ki == keep_indices(sheet[1])
    IN  [r \in 1..Len(sheet) |-> [k \in 1..Len(ki) |-> sheet[r][ki[k]]]]

\* One pass of the loop body of lines 82-91 over header fh[i].
\* acc = [uh: unique_header, dc: duplicate_counts, err: exception raised]
DedupStep(acc, raw) ==
    LET col == Strip(raw)
    IN  IF acc.err # "" THEN acc
        ELSE IF ~InList(col, acc.uh)
        THEN [acc EXCEPT !.uh = Append(@, col),
                         !.dc = [c \in (DOMAIN acc.dc) \cup {col} |->
                                     IF c = col THEN 1 ELSE acc.dc[c]]]
        ELSE IF col \notin DOMAIN acc.dc
        THEN [acc EXCEPT !.err = "KeyError"]
        ELSE [acc EXCEPT !.dc[col] = @ + 1,
                         !.uh = Append(@, col \o <<"_">> \o IntStr(acc.dc[col] + 1))]

RECURSIVE DedupLoop(_, _)
DedupLoop(acc, fh) ==
    IF fh = << >> THEN acc ELSE DedupLoop(DedupStep(acc, fh[1]), Tail(fh))

\* lines 80-91: [uh, dc, err] when the loop ends or raises
unique_header(fh) == DedupLoop([uh |-> << >>, dc |-> << >>, err |-> ""], fh)

-----------------------------------------------------------------------------
(* DataFrame: [cols: column labels, rows: cells by position, flt: the      *)
(* positions of the float64 columns (the others are object columns)].      *)
(* A frame in flight through fetch_data: [err: exception raised so far,    *)
(* line: where, df, bpc: battery_pack_col].                                *)

EmptyDataFrame == [cols |-> << >>, rows |-> << >>, flt |-> {}]

Positions(df, name) == {i \in 1..Len(df.cols) : df.cols[i] = name}

ColPos(df, name) == CHOOSE i \in Positions(df, name) : TRUE

Raise(F, exc, line) == [F EXCEPT !.err = exc, !.line = line]

\* Series.str.replace(pat, rep) of one cell: NaN stays NaN
StrReplace(v, pat, rep) == IF IsStr(v) THEN StrV(Replace(v.s, pat, rep)) ELSE v

\* Series.replace(old, NaN) of one cell: the whole cell must equal old
ReplaceWhole(v, old) == IF v = StrV(old) THEN NaN ELSE v

\* Series.astype(float) of one cell
AsFloat(v) == IF IsStr(v) THEN PyFloat(v.s) ELSE Ok(v)

\* line 104
AgeCell(v) ==
    AsFloat(ReplaceWhole(
        StrReplace(StrReplace(v, <<" ", "Months">>, << >>), <<",">>, <<".">>),
        << >>))

\* astype(float) of what str.extract found: NaN when nothing matched
ExtractedFloat(run) == IF run = << >> THEN NaN ELSE Num(DigitsVal(run), 1)

\* Variants of line 107 with a plausible slip: the pattern anchored at the
\* start of the cell (re.match), and the thousands separators left in place
OdometerCellAnchored(v) ==
    Ok(ExtractedFloat(
        IF /\ Replace(v.s, <<",">>, << >>) # << >>
           /\ Replace(v.s, <<",">>, << >>)[1] \in Digits
        THEN FirstDigitRun(Replace(v.s, <<",">>, << >>)) ELSE << >>))

OdometerCellKeepCommas(v) == Ok(ExtractedFloat(FirstDigitRun(v.s)))

\* line 107: str.replace(',', '').str.extract('(\d+)').astype(float)
OdometerCell(v) ==
    Ok(ExtractedFloat(FirstDigitRun(Replace(v.s, <<",">>, << >>))))

\* line 113, one cell
CommaToDot(v) == StrReplace(v, <<",">>, <<".">>)

\* Variant of line 119 with a plausible slip: the sign is not prepended
NegateForgotten(v) == v

\* line 119, one cell:  '-' + df[col]
Negate(v) == IF IsStr(v) THEN StrV(<<"-">> \o v.s) ELSE v

\* line 122, one cell
FoldZero(v) == ReplaceWhole(v, <<"-", "0", ".", "0", "%">>)

\* lines 125-126
RatedRangeCell(v) == Ok(ToNumeric(StrReplace(v, <<" ", "km">>, << >>)))

\* lines 128-129
CapacityCell(v) ==
    Ok(ToNumeric(StrReplace(StrReplace(v, <<" ", "kWh">>, << >>), <<",">>, <<".">>)))

\* line 132
DegradationNumeric(v) == Ok(ToNumeric(StrReplace(v, <<"%">>, << >>)))

\* lines 135 and 136
PercentCell(v) == AsFloat(ReplaceWhole(StrReplace(v, <<"%">>, << >>), << >>))

\* the conversion that line `line` applies to each cell of a column: [ok, v]
Conv(line, v) ==
    CASE line = 104 -> AgeCell(v)
      [] line = 107 -> OdometerCell(v)
      [] line = 119 -> Ok(Negate(v))
      [] line = 122 -> Ok(FoldZero(v))
      [] line = 125 -> RatedRangeCell(v)
      [] line = 128 -> CapacityCell(v)
      [] line = 132 -> DegradationNumeric(v)
      [] OTHER -> PercentCell(v)

\* df[name] = conv, the converted cells of the column at position p: a cell
\* that is not ok raises ValueError; tofloat: the result is a float64 column
Assign(F, p, line, tofloat, conv) ==
    IF \E r \in 1..Len(conv) : ~conv[r].ok
    THEN Raise(F, "ValueError", line)
    ELSE [F EXCEPT !.df.rows = [r \in 1..Len(@) |->
                                   [@[r] EXCEPT ![p] = conv[r].v]],
                   !.df.flt = IF tofloat THEN @ \cup {p} ELSE @]

\* df[name] = <conversion of df[name]> at line `line`; a missing label
\* raises KeyError, a repeated one has no .str accessor
ColStep(F, name, line, tofloat) ==
    IF F.err # "" THEN F
    ELSE IF Positions(F.df, name) = {} THEN Raise(F, "KeyError", line)
    ELSE IF Cardinality(Positions(F.df, name)) > 1
         THEN Raise(F, "AttributeError", line)
    ELSE Assign(F, ColPos(F.df, name), line, tofloat,
                [r \in 1..Len(F.df.rows) |->
                    Conv(line, F.df.rows[r][ColPos(F.df, name)])])

\* line 97-101
battery_pack_col(df) ==
    IF \E i \in 1..Len(df.cols) : StartsWith(df.cols[i], cBatteryPack)
    THEN df.cols[CHOOSE i \in 1..Len(df.cols) :
                    /\ StartsWith(df.cols[i], cBatteryPack)
                    /\ \A j \in 1..(i - 1) : ~StartsWith(df.cols[j], cBatteryPack)]
    ELSE None

\* lines 110-112: the positions of the object columns, less the first column
\* labelled battery_pack_col
columns_to_replace(df, bpc) ==
    IF Positions(df, bpc) \ df.flt = {} THEN (1..Len(df.cols)) \ df.flt
    ELSE ((1..Len(df.cols)) \ df.flt)
           \ {CHOOSE i \in Positions(df, bpc) \ df.flt :
                  \A j \in Positions(df, bpc) \ df.flt : i <= j}

\* df[ps] = df[ps].apply(...) of line 113.  With a label repeated among the
\* selected columns the assignment raises ValueError ("Columns must be same
\* length as key").
ApplyCommaToDot(F, ps) ==
    IF \E i, j \in ps : i # j /\ F.df.cols[i] = F.df.cols[j]
    THEN Raise(F, "ValueError", 113)
    ELSE [F EXCEPT
            !.df.rows = [r \in 1..Len(@) |->
                            [p \in 1..Len(@[r]) |->
                                IF p \in ps THEN CommaToDot(@[r][p])
                                ELSE @[r][p]]]]

\* lines 110-113
ReplaceCommas(F) ==
    IF F.err # "" THEN F
    ELSE ApplyCommaToDot(F, columns_to_replace(F.df, F.bpc))

\* lines 116-119: only when the column exists
NegateColumns(F) ==
    IF F.err # "" \/ Positions(F.df, cDegradation) = {} THEN F
    ELSE ColStep(F, cDegradation, 119, FALSE)

\* lines 138-139
UsernameFilter(F, username_filter) ==
    IF F.err # "" \/ username_filter = << >> THEN F
    ELSE IF Positions(F.df, cUsername) = {} THEN Raise(F, "KeyError", 139)
    ELSE LET p == ColPos(F.df, cUsername)
         IN  [F EXCEPT !.df.rows =
                 SelectSeq(@, LAMBDA row :
                     /\ IsStr(row[p])
                     /\ Contains(LowerStr(row[p].s), LowerStr(username_filter)))]

-----------------------------------------------------------------------------
(* fetch_data, lines 59-141.  The result: kind "return" with the pair       *)
(* (df, battery_pack_col), or kind "raise" with the exception and its line. *)
(* unique_header is the local of that name when line 94 is reached.         *)

Returned(df, bpc, uh) ==
    [kind |-> "return", err |-> "", line |-> 0, df |-> df, bpc |-> bpc,
     unique_header |-> uh]

Raised(exc, line, uh) ==
    [kind |-> "raise", err |-> exc, line |-> line, df |-> EmptyDataFrame,
     bpc |-> None, unique_header |-> uh]

NotCalled ==
    [kind |-> "none", err |-> "", line |-> 0, df |-> EmptyDataFrame,
     bpc |-> None, unique_header |-> << >>]

\* line 94: pd.DataFrame(filtered_data[1:], columns=unique_header)
DataFrame94(sheet, uh) ==
    LET fd == filtered_data(sheet)
    IN  [cols |-> uh,
         rows |-> [r \in 1..(Len(sheet) - 1) |->
                      [k \in 1..Len(uh) |-> StrV(fd[r + 1][k])]],
         flt  |-> {}]

\* lines 97-139 on the frame of line 94
Typed(df0, username_filter) ==
    LET F0  == [err |-> "", line |-> 0, df |-> df0,
                bpc |-> battery_pack_col(df0)]
        F1  == ColStep(F0, cAge, 104, TRUE)
        F2  == ColStep(F1, cOdometer, 107, TRUE)
        F3  == ReplaceCommas(F2)
        F4  == NegateColumns(F3)
        F5  == ColStep(F4, cDegradation, 122, FALSE)
        F6  == ColStep(F5, cRatedRange, 125, TRUE)
        F7  == ColStep(F6, cCapacity, 128, TRUE)
        F8  == ColStep(F7, cDegradation, 132, TRUE)
        F9  == ColStep(F8, cSOCLimit, 135, TRUE)
        F10 == ColStep(F9, cDCRatio, 136, TRUE)
    IN  UsernameFilter(F10, username_filter)

\* how fetch_data ends on the frame F: line 141, or the exception raised
Finish(F, uh) ==
    IF F.err # "" THEN Raised(F.err, F.line, uh)
    ELSE Returned(F.df, F.bpc, uh)

\* lines 80-141; u is what the header loop left: [uh, dc, err]
FromLine80(sheet, u, username_filter) ==
    IF u.err # "" THEN Raised(u.err, 89, << >>)
    ELSE Finish(Typed(DataFrame94(sheet, u.uh), username_filter), u.uh)

fetch_data(sheet, username_filter) ==
    IF ~InList(cUsername, sheet[1])
    THEN Returned(EmptyDataFrame, None, << >>)                    \* line 65
    ELSE FromLine80(sheet, unique_header(filtered_header(sheet[1])),
                    username_filter)

-----------------------------------------------------------------------------
(* Float arithmetic of the script body.  A comparison with NaN is false.    *)
(* The sign of a zero is not kept: x / 0 is an infinity of the sign of x,   *)
(* and both infinities meet the same fate wherever the script divides.      *)

IntV(k) == Num(k, 1)

ValLt(a, b) ==
    IF IsNaN(a) \/ IsNaN(b) THEN FALSE
    ELSE IF IsInf(a) \/ IsInf(b)
         THEN \/ IsInf(a) /\ a.n < 0 /\ ~(IsInf(b) /\ b.n < 0)
              \/ IsInf(b) /\ b.n > 0 /\ ~(IsInf(a) /\ a.n > 0)
         ELSE a.n * b.d < b.n * a.d

ValLe(a, b) == ~IsNaN(a) /\ ~IsNaN(b) /\ (ValLt(a, b) \/ a = b)

Sign(k) == IF k < 0 THEN -1 ELSE 1

\* a / b
ValDiv(a, b) ==
    IF IsNaN(a) \/ IsNaN(b) THEN NaN
    ELSE IF IsInf(a)
         THEN (IF IsInf(b) THEN NaN
               ELSE IF a.n * Sign(b.n) < 0 THEN NegInf ELSE PosInf)
    ELSE IF IsInf(b) THEN IntV(0)
    ELSE IF b.n = 0
         THEN (IF a.n = 0 THEN NaN ELSE IF a.n < 0 THEN NegInf ELSE PosInf)
    ELSE Num(a.n * b.d * Sign(b.n), a.d * Abs(b.n))

\* a + b and a * b of finite floats
ValAdd(a, b) == Num(a.n * b.d + b.n * a.d, a.d * b.d)

ValMul(a, b) == Num(a.n * b.n, a.d * b.d)

RECURSIVE SumV(_)
\* Series.sum() of finite floats
SumV(vals) ==
    IF vals = << >> THEN IntV(0) ELSE ValAdd(Head(vals), SumV(Tail(vals)))

\* Series.min() and Series.max(): nulls are skipped, NaN when nothing is left
SeriesMin(vals) ==
    IF \A i \in 1..Len(vals) : IsNaN(vals[i]) THEN NaN
    ELSE vals[CHOOSE i \in 1..Len(vals) :
                  ~IsNaN(vals[i]) /\ \A j \in 1..Len(vals) :
                      IsNaN(vals[j]) \/ ValLe(vals[i], vals[j])]

SeriesMax(vals) ==
    IF \A i \in 1..Len(vals) : IsNaN(vals[i]) THEN NaN
    ELSE vals[CHOOSE i \in 1..Len(vals) :
                  ~IsNaN(vals[i]) /\ \A j \in 1..Len(vals) :
                      IsNaN(vals[j]) \/ ValLe(vals[j], vals[i])]

\* int(x) of a float: [err, k]; truncation toward zero
PyInt(v) ==
    IF IsNaN(v) THEN [err |-> "ValueError", k |-> 0]
    ELSE IF IsInf(v) THEN [err |-> "OverflowError", k |-> 0]
    ELSE [err |-> "", k |-> Sign(v.n) * (Abs(v.n) \div v.d)]

-----------------------------------------------------------------------------
(* DataFrame operations of the script body *)

HasCol(df, name) == Positions(df, name) # {}

At(df, row, name) == row[ColPos(df, name)]

Column(df, name) == [r \in 1..Len(df.rows) |-> At(df, df.rows[r], name)]

\* df[mask], mask a boolean per row
RECURSIVE Masked(_, _)
Masked(rows, mask) ==
    IF rows = << >> THEN << >>
    ELSE IF mask[Len(rows)]
         THEN Append(Masked(SubSeq(rows, 1, Len(rows) - 1),
                            SubSeq(mask, 1, Len(rows) - 1)),
                     rows[Len(rows)])
         ELSE Masked(SubSeq(rows, 1, Len(rows) - 1),
                     SubSeq(mask, 1, Len(rows) - 1))

Where(df, mask) == [df EXCEPT !.rows = Masked(@, mask)]

\* Series.isin(selection)
IsIn(v, selection) == \E i \in 1..Len(selection) : StrV(selection[i]) = v

\* df[df[name].isin(selection)], or df when nothing is selected
WhereIsIn(df, name, selection) ==
    IF selection = << >> THEN df
    ELSE Where(df, [r \in 1..Len(df.rows) |->
                       IsIn(At(df, df.rows[r], name), selection)])

\* df[df[name] == v] and df[df[name] != v]
WhereEq(df, name, v) ==
    Where(df, [r \in 1..Len(df.rows) |-> At(df, df.rows[r], name) = v])

WhereNe(df, name, v) ==
    Where(df, [r \in 1..Len(df.rows) |-> At(df, df.rows[r], name) # v])

\* df[(df[name] >= lo) & (df[name] <= hi)]
\* a range filter that keeps every row
BetweenUnbounded(df, name, lo, hi) == df

Between(df, name, lo, hi) ==
    Where(df, [r \in 1..Len(df.rows) |->
                  /\ ValLe(lo, At(df, df.rows[r], name))
                  /\ ValLe(At(df, df.rows[r], name), hi)])

\* df.dropna(subset=names)
dropna(df, names) ==
    Where(df, [r \in 1..Len(df.rows) |->
                  \A name \in names : ~IsNaN(At(df, df.rows[r], name))])

\* df[col].unique(): the values in order of first appearance
Unique(vals) ==
    SelectSeq([i \in 1..Len(vals) |->
                  IF \E j \in 1..(i - 1) : vals[j] = vals[i]
                  THEN NaN ELSE vals[i]],
              LAMBDA v : ~IsNaN(v))

\* df[name] = pd.to_numeric(df[name], errors='coerce')
NumericCol(df, name) ==
    [df EXCEPT !.rows = [r \in 1..Len(@) |->
                            [@[r] EXCEPT ![ColPos(df, name)] = ToNumeric(@)]],
               !.flt = @ \cup {ColPos(df, name)}]

\* sort_values(by=name): stable, nulls last
RECURSIVE InsertSorted(_, _, _)
InsertSorted(sorted, row, p) ==
    IF sorted = << >> THEN <<row>>
    ELSE IF (IsNaN(sorted[Len(sorted)][p]) /\ ~IsNaN(row[p]))
              \/ ValLt(row[p], sorted[Len(sorted)][p])
         THEN Append(InsertSorted(SubSeq(sorted, 1, Len(sorted) - 1), row, p),
                     sorted[Len(sorted)])
         ELSE Append(sorted, row)

RECURSIVE SortRows(_, _)
SortRows(rows, p) ==
    IF rows = << >> THEN << >>
    ELSE InsertSorted(SortRows(SubSeq(rows, 1, Len(rows) - 1), p),
                      rows[Len(rows)], p)

sort_values(df, name) == [df EXCEPT !.rows = SortRows(@, ColPos(df, name))]

-----------------------------------------------------------------------------
(* The script body, lines 235-767.  ui holds what the user has set in the   *)
(* sidebar: tesla, version, battery (multiselects, in selection order),     *)
(* x_axis_data, y_axis_data, hide_replaced_packs, filter_option, and wide:  *)
(* whether the four age and odometer inputs are left at their defaults or   *)
(* opened to the widest range tried (1..MaxAgeInput, 1000..MaxOdoInput).    *)
(* A run in flight: [err, line, s: st.session_state.filtered_df,            *)
(* f: the local filtered_df, min_age, max_age, min_odo, max_odo].           *)

MaxAgeInput == 600        \* the widest MAX Age the user enters
MaxOdoInput == 900000     \* the widest MAX ODO the user enters

cDegradationPerX == <<"DegradationPerX">>

\* lines 314-322
y_column(ui) ==
    CASE ui.y_axis_data = "Degradation" -> cDegradation
      [] ui.y_axis_data = "Capacity" -> cCapacity
      [] OTHER -> cRatedRange

\* lines 325-333
x_column(ui) ==
    CASE ui.x_axis_data = "Age" -> cAge
      [] ui.x_axis_data = "Odometer" -> cOdometer
      [] OTHER -> cCycles

\* lines 735-746
denominator_column(ui) ==
    CASE ui.x_axis_data = "Age" -> cAge
      [] ui.x_axis_data = "Odometer" -> cOdometer
      [] OTHER -> cCycles

\* the divisor without the rescaling of the odometer to thousands of km
divisorUnscaled(ui) == 1

divisor(ui) == IF ui.x_axis_data = "Odometer" THEN 1000 ELSE 1

Crash(G, exc, line) == [G EXCEPT !.err = exc, !.line = line]

\* lines 254-268: what the three multiselects offer
TeslaOptions(df) == Unique(Column(df, cTesla))

VersionOptions(df, tesla) ==
    Unique(Column(WhereIsIn(df, cTesla, tesla), cVersion))

BatteryOptions(df, tesla, version) ==
    Unique(Column(WhereIsIn(WhereIsIn(df, cTesla, tesla), cVersion, version),
                  cBattery))

\* lines 254-286
SelectByCategory(G, df, ui) ==
    IF ~HasCol(df, cTesla) THEN Crash(G, "KeyError", 254)
    ELSE IF ~HasCol(df, cVersion) THEN Crash(G, "KeyError", 261)
    ELSE IF ~HasCol(df, cBattery) THEN Crash(G, "KeyError", 268)
    ELSE [G EXCEPT !.s =
            WhereIsIn(WhereIsIn(WhereIsIn(df, cTesla, ui.tesla),
                                cVersion, ui.version),
                      cBattery, ui.battery)]

\* what number_input does with value=k and min_value=lo: [err, k]
Checked(i, lo, clampLow) ==
    IF i.err # "" THEN i
    ELSE IF clampLow THEN [err |-> "", k |-> IF lo >= i.k THEN lo ELSE i.k]
    ELSE IF i.k < lo THEN [err |-> "StreamlitAPIException", k |-> i.k]
    ELSE i

\* number_input(min_value=lo, value=int(v)), or value=max(lo, int(v))
InputDefault(v, lo, clampLow) == Checked(PyInt(v), lo, clampLow)

\* lines 292-298 once the four defaults are known
SetInputs(G, ui, lo_age, hi_age, lo_odo, hi_odo) ==
    IF lo_age.err # "" THEN Crash(G, lo_age.err, 292)
    ELSE IF hi_age.err # "" THEN Crash(G, hi_age.err, 293)
    ELSE IF lo_odo.err # "" THEN Crash(G, lo_odo.err, 297)
    ELSE IF hi_odo.err # "" THEN Crash(G, hi_odo.err, 298)
    ELSE [G EXCEPT !.min_age = IF ui.wide THEN 1 ELSE lo_age.k,
                   !.max_age = IF ui.wide THEN MaxAgeInput ELSE hi_age.k,
                   !.min_odo = IF ui.wide THEN 1000 ELSE lo_odo.k,
                   !.max_odo = IF ui.wide THEN MaxOdoInput ELSE hi_odo.k]

\* lines 290-298
NumberInputs(G, ui) ==
    IF G.err # "" THEN G
    ELSE SetInputs(G, ui,
            InputDefault(SeriesMin(Column(G.s, cAge)), 1, TRUE),
            InputDefault(SeriesMax(Column(G.s, cAge)), 1, FALSE),
            InputDefault(SeriesMin(Column(G.s, cOdometer)), 1000, TRUE),
            InputDefault(SeriesMax(Column(G.s, cOdometer)), 1000, FALSE))

\* lines 310-311 and 380-381
InRange(G) ==
    IF G.err # "" THEN G
    ELSE [G EXCEPT !.s = Between(Between(@, cAge, IntV(G.min_age),
                                         IntV(G.max_age)),
                                 cOdometer, IntV(G.min_odo), IntV(G.max_odo))]

\* one of the two "Nerdy Options" with its inputs left at their defaults
\* vmin and vmax, which must lie in [lo, 100] unless they are NaN
NerdyBetween(G, name, lo, line, vmin, vmax) ==
    IF ValLt(vmin, IntV(lo)) \/ ValLt(IntV(100), vmin)
    THEN Crash(G, "StreamlitAPIException", line)
    ELSE IF ValLt(vmax, IntV(lo)) \/ ValLt(IntV(100), vmax)
    THEN Crash(G, "StreamlitAPIException", line + 1)
    ELSE [G EXCEPT !.s = Between(@, name, vmin, vmax)]

\* lines 357-364 and 366-373
NerdyFilter(G, name, lo, line) ==
    NerdyBetween(G, name, lo, line,
                 SeriesMin(Column(G.s, name)), SeriesMax(Column(G.s, name)))

\* lines 356-373
NerdyOptions(G, ui) ==
    IF G.err # "" THEN G
    ELSE CASE ui.filter_option = "Daily SOC Limit" ->
                  NerdyFilter(G, cSOCLimit, 50, 359)
           [] ui.filter_option = "AC/DC Ratio" ->
                  NerdyFilter(G, cDCRatio, 0, 368)
           [] OTHER -> G

\* lines 376-377
HideReplaced(G, bpc, ui) ==
    IF G.err = "" /\ ui.hide_replaced_packs /\ bpc # None /\ HasCol(G.s, bpc)
    THEN [G EXCEPT !.s = WhereNe(@, bpc, StrV(<<"Replaced">>))]
    ELSE G

\* lines 290-381
Sidebar(G, bpc, ui) ==
    InRange(HideReplaced(NerdyOptions(InRange(NumberInputs(G, ui)), ui),
                         bpc, ui))

\* df[(df[x] > 0) & df[x].notna() & df[y].notna()]
Positive(df, x, y) ==
    Where(df, [r \in 1..Len(df.rows) |->
                  /\ ValLt(IntV(0), At(df, df.rows[r], x))
                  /\ ~IsNaN(At(df, df.rows[r], x))
                  /\ ~IsNaN(At(df, df.rows[r], y))])

\* lines 450-453 and 757-760: the local filtered_df, taken from
\* st.session_state.filtered_df
Plottable(G, ui) ==
    [G EXCEPT !.f = sort_values(Positive(G.s, x_column(ui), y_column(ui)),
                                x_column(ui))]

\* lines 447-453
ScatterData(G, ui) ==
    IF G.err # "" THEN G
    ELSE IF ~HasCol(G.s, x_column(ui)) THEN Crash(G, "KeyError", 447)
    ELSE IF ~HasCol(G.s, y_column(ui)) THEN Crash(G, "KeyError", 450)
    ELSE Plottable([G EXCEPT !.s = NumericCol(@, x_column(ui))], ui)

\* lines 457-463: the local filtered_df gets the column 'Marker Symbol', a
\* star where the trimmed cell of battery_pack_col is 'Replaced' and a
\* circle elsewhere; scatter is the frame that the scatter plot is drawn from
MarkerSymbol(G, bpc) ==
    IF G.err # "" THEN G
    ELSE [G EXCEPT !.scatter =
            [G.f EXCEPT
               !.cols = Append(@, <<"Marker", " ", "Symbol">>),
               !.rows = [r \in 1..Len(@) |->
                            Append(@[r],
                                   IF /\ bpc # None /\ HasCol(G.f, bpc)
                                      /\ ~IsNaN(At(G.f, @[r], bpc))
                                      /\ Strip(At(G.f, @[r], bpc).s) = <<"Replaced">>
                                   THEN StrV(<<"star">>) ELSE StrV(<<"circle">>))]]]

\* line 763: df['DegradationPerX'] = df['Degradation'] / (df[den] / divisor)
AddPerX(df, den, div) ==
    [df EXCEPT
       !.cols = Append(@, cDegradationPerX),
       !.rows = [r \in 1..Len(@) |->
                    Append(@[r], ValDiv(At(df, @[r], cDegradation),
                                        ValDiv(At(df, @[r], den), IntV(div))))],
       !.flt = @ \cup {Len(df.cols) + 1}]

\* line 766: df.replace([np.inf, -np.inf], np.nan)
ReplaceInf(df) ==
    [df EXCEPT !.rows = [r \in 1..Len(@) |->
                            [p \in 1..Len(@[r]) |->
                                IF IsInf(@[r][p]) THEN NaN ELSE @[r][p]]]]

\* lines 763-767 on st.session_state.filtered_df
PerX(G, ui) ==
    [G EXCEPT !.s =
        WhereNe(dropna(ReplaceInf(AddPerX(@, denominator_column(ui),
                                          divisor(ui))),
                       {cDegradationPerX}),
                cDegradationPerX, IntV(0))]

\* lines 748-767: st.session_state.filtered_df gets the DegradationPerX
\* column; the filter of line 757 goes to the local filtered_df
DegradationPerX(G, ui) ==
    IF G.err # "" THEN G
    ELSE IF ~HasCol(G.s, denominator_column(ui)) THEN Crash(G, "KeyError", 750)
    ELSE PerX(
           Plottable(                                              \* 757-760
             [G EXCEPT !.s =
                NumericCol(                                        \* 754
                  dropna(                                          \* 751
                    NumericCol(NumericCol(@, cDegradation),        \* 749
                               denominator_column(ui)),            \* 750
                    {cDegradation, denominator_column(ui)}),
                  x_column(ui))],
             ui),
           ui)

-----------------------------------------------------------------------------
(* Sheets.  Every sheet holds the header row and AnchorRow, a well-formed   *)
(* record, so that no column is empty or entirely null.                     *)

MaxExtra   == 4      \* extra header cells appended to BaseHeader
MaxCellLen == 3      \* atoms of a generated cell

BaseHeader ==
    <<cUsername, cTesla, cVersion, cBattery, cAge, cOdometer, cCycles,
      cDegradation, cRatedRange, cCapacity, cSOCLimit, cDCRatio, cBatteryPack>>

AnchorRow ==
    << <<"alice">>, <<"M3">>, <<"LR">>, <<"B1">>,
       <<"2", "4", " ", "Months">>,
       <<"5", "0", ",", "0", "0", "0", " ", "km">>,
       <<"1", "0", "0">>,
       <<"5", ",", "0", "%">>,
       <<"4", "8", "0", " ", "km">>,
       <<"7", "0", ",", "5", " ", "kWh">>,
       <<"8", "0", "%">>,
       <<"1", "0", "%">>,
       <<"Original">> >>

\* all sequences over S of length 0..n
RECURSIVE SeqsUpTo(_, _)
SeqsUpTo(S, n) ==
    IF n = 0 THEN {<< >>}
    ELSE LET shorter == SeqsUpTo(S, n - 1)
         IN  shorter \cup {Append(q, x) : q \in shorter, x \in S}

NumericFields ==
    {cAge, cOdometer, cDegradation, cRatedRange, cCapacity, cSOCLimit, cDCRatio}

\* the cells tried: every text over CellAtoms up to MaxCellLen atoms, the
\* form the sheet gives a degradation (digits "," digits "%"), and examples
Cells ==
    LET CellAtoms == {"0", "5", ",", "%", "-", "inf"}
    IN
    SeqsUpTo(CellAtoms, MaxCellLen)
    \cup {a \o <<",">> \o b \o <<"%">> :
             a, b \in SeqsUpTo({"0", "5"}, 2) \ {<< >>}}
    \cup { <<"1", "2", ",", "5", "%">>, <<"0", ",", "0", "0", "%">>,
           <<"1", "2", "3", ",", "4", "5", "6", " ", "km">>,
           <<" ", "5", "0", "0", "0", " ", "km">>, <<"abc", "1", "2", "3">>,
           <<"3", "6", " ", "Months">>, <<"7", "5", ",", "5", " ", "kWh">>,
           <<"abc">>, <<"abc", "5">>, <<"nan">>, <<".", "5">>, <<"+", "5">>,
           <<"1", ".", "2", ".", "3">> }

\* BaseHeader with extra header cells appended, one data row
SheetWithExtra(extra) ==
    << BaseHeader \o extra,
       AnchorRow \o [k \in 1..Len(extra) |-> <<"x">> \o IntStr(k)] >>

\* BaseHeader without its i-th column, one data row
SheetWithout(i) ==
    << SubSeq(BaseHeader, 1, i - 1) \o SubSeq(BaseHeader, i + 1, Len(BaseHeader)),
       SubSeq(AnchorRow, 1, i - 1) \o SubSeq(AnchorRow, i + 1, Len(AnchorRow)) >>

\* BaseHeader, AnchorRow and a second row that differs in one field
SheetWithCell(field, cell) ==
    << BaseHeader, AnchorRow,
       [AnchorRow EXCEPT ![Index(BaseHeader, field)] = cell] >>

vars == <<data, username, pc, ret, widgets, outcome, bars, telemetry, page,
          metadata_file, session>>

\* the widgets before the user touches them
DefaultUi ==
    [tesla |-> << >>, version |-> << >>, battery |-> << >>,
     x_axis_data |-> "Age", y_axis_data |-> "Degradation",
     hide_replaced_packs |-> TRUE, filter_option |-> "Off", wide |-> FALSE]

\* the session before its first run, at time 0: nothing memoized, no call
\* made, no button drawn or pressed; the remote sheet answers, and the user
\* sets the widgets (kept says that they are left as they are instead)
FirstVisit ==
    [clock |-> 0, store |-> << >>, cleared |-> 0, calls |-> << >>,
     drawn |-> FALSE, pressed |-> FALSE, runs |-> 0, remote |-> "ok",
     kept |-> FALSE]

\* the Performance page before it runs
NotPlotted ==
    [state |-> "start", err |-> "", note |-> "", warnings |-> << >>,
     infos |-> << >>, file_info |-> << >>, filtered_file_info |-> << >>,
     plot_data |-> << >>, requests |-> << >>, before |-> {}, returned |-> {},
     metadata_cache |-> << >>, saved |-> FALSE,
     ui |-> [soc |-> "default", temp |-> "full", selected_columns |-> << >>]]

NotRun ==
    [err |-> "", line |-> 0, s |-> EmptyDataFrame, f |-> EmptyDataFrame,
     min_age |-> 0, max_age |-> 0, min_odo |-> 0, max_odo |-> 0,
     result_texts |-> << >>, grouped |-> << >>, scatter |-> EmptyDataFrame]

InitHeader ==
    /\ data \in LET \* header cells tried beyond BaseHeader
                    ExtraNames == {<<"A">>, <<"B">>, <<"A", "_", "2">>,
                                   <<"A", " ">>, <<"_", "A">>}
                IN  {SheetWithExtra(e) : e \in SeqsUpTo(ExtraNames, MaxExtra)}
                  \cup {SheetWithout(i) : i \in 1..Len(BaseHeader)}
    /\ username = << >>
    /\ pc = "start"
    /\ ret = NotCalled
    /\ widgets = DefaultUi
    /\ outcome = NotRun
    /\ bars = << >>
    /\ telemetry = << >>
    /\ page = NotPlotted
    /\ metadata_file = [kind |-> "missing", cache |-> << >>]
    /\ session = FirstVisit

InitCells ==
    /\ data \in {SheetWithCell(f, c) : f \in NumericFields, c \in Cells}
    /\ username = << >>
    /\ pc = "start"
    /\ ret = NotCalled
    /\ widgets = DefaultUi
    /\ outcome = NotRun
    /\ bars = << >>
    /\ telemetry = << >>
    /\ page = NotPlotted
    /\ metadata_file = [kind |-> "missing", cache |-> << >>]
    /\ session = FirstVisit

\* a store that keeps a result for an hour
ttl_one_hour == 60 * 60

\* line 31: the seconds for which st.cache_data keeps a result of fetch_data
ttl == 300

\* line 232: df, battery_pack_col = fetch_data(username_filter=username),
\* through the decorator of line 31: a result stored for this argument less
\* than ttl seconds ago is returned without a call; otherwise the function
\* runs, the sheet is asked for (lines 52-59, which raise when the remote
\* does not answer), and the result is stored if the function returns
Fetch ==
    /\ pc = "start"
    /\ LET memoized ==
               /\ username \in DOMAIN session.store
               /\ session.clock - session.store[username].at < ttl
       IN  /\ ret' = IF memoized THEN session.store[username].value
                     ELSE IF session.remote # "ok"
                     THEN Raised(session.remote, 59, << >>)
                     ELSE fetch_data(data, username)
           /\ session' =
                 [session EXCEPT
                    !.store =
                        IF memoized \/ ret'.kind # "return" THEN @
                        ELSE [a \in DOMAIN session.store \cup {username} |->
                                 IF a = username
                                 THEN [at |-> session.clock, value |-> ret']
                                 ELSE session.store[a]],
                    !.calls = Append(@, [at |-> session.clock, arg |-> username,
                                         cleared |-> session.cleared,
                                         contacted |-> ~memoized,
                                         raised |-> ret'.kind = "raise"])]
    /\ pc' = "fetched"
    /\ UNCHANGED <<data, username, widgets, outcome, bars, telemetry, page,
                   metadata_file>>

SpecHeader == InitHeader /\ [][Fetch]_vars

SpecCells == InitCells /\ [][Fetch]_vars

-----------------------------------------------------------------------------
(* The dashboard: one run of the script on a sheet of two records.  The     *)
(* second record varies in battery, cycles and degradation, or in age, or   *)
(* in odometer, or in pack status.                                          *)

\* the second record, entered by user "bob"
BobRow ==
    [AnchorRow EXCEPT ![Index(BaseHeader, cUsername)] = <<"bob">>,
                      ![Index(BaseHeader, cVersion)] = <<"SR">>]

SecondRows ==
    {[BobRow EXCEPT ![Index(BaseHeader, cCycles)] = c,
                    ![Index(BaseHeader, cDegradation)] = d,
                    ![Index(BaseHeader, cBattery)] = b] :
        c \in {<<"1", "0", "0">>, <<"5", "0">>, <<"0">>, <<"-", "5">>, << >>},
        d \in {<<"1", "0", ",", "0", "%">>, <<"0", ",", "0", "%">>},
        b \in {<<"B1">>, <<"B2">>}}
    \cup {[BobRow EXCEPT ![Index(BaseHeader, cAge)] = a] :
              a \in {<<"0", " ", "Months">>, << >>}}
    \cup {[BobRow EXCEPT ![Index(BaseHeader, cOdometer)] = o] :
              o \in {<<"5", "0", "0", " ", "km">>, << >>}}
    \cup {[BobRow EXCEPT ![Index(BaseHeader, cBatteryPack)] = p] :
              p \in {<<"Replaced">>, <<"Replaced", " ">>, << >>}}

\* sheets for the projection: records of battery B1 on a line through the
\* origin, (x, y) and (2x, 2y), in age and in odometer, followed by one
\* record of battery B2 or by a third record of B1 on the line; the last
\* sheet has two records of B1 whose fits end within the displayed ranges
FitSheets ==
    LET Row(b, age, odo, cyc, deg) ==
            [BobRow EXCEPT ![Index(BaseHeader, cBattery)] = b,
                           ![Index(BaseHeader, cAge)] = IntStr(age) \o <<" ", "Months">>,
                           ![Index(BaseHeader, cOdometer)] = IntStr(odo) \o <<" ", "km">>,
                           ![Index(BaseHeader, cCycles)] = IntStr(cyc),
                           ![Index(BaseHeader, cDegradation)] = deg]
        Ten    == <<"1", "0", ",", "0", "%">>
        Twenty == <<"2", "0", ",", "0", "%">>
        Tenth  == <<"0", ",", "1", "%">>
        Fifth  == <<"0", ",", "2", "%">>
    IN  {<<BaseHeader, Row(<<"B1">>, a, 50000, 100, Ten),
                       Row(<<"B1">>, 2 * a, 50000, 100, Twenty),
                       Row(<<"B2">>, 24, 50000, 100, Ten)>> :
            a \in {12, 27, 28, 48, 50, 54, 80, 81}}
        \cup
        {<<BaseHeader, Row(<<"B1">>, 12, o[1], 1000, Tenth),
                       Row(<<"B1">>, 24, o[2], 2000, Fifth)>> :
            o \in {<<1000, 2000>>, <<1150, 2300>>, <<1500, 3000>>, <<5000, 10000>>,
                   <<5100, 10200>>, <<1000, 3000>>, <<50000, 50000>>}}
        \cup
        {<<BaseHeader, Row(<<"B1">>, 10, 50000, 100, <<"5", ",", "0", "%">>),
                       Row(<<"B1">>, 20, 50000, 100, d),
                       Row(<<"B1">>, 30, 50000, 100, <<"1", "5", ",", "0", "%">>)>> :
            d \in {Ten, <<"5", ",", "0", "%">>}}
        \cup
        {<<BaseHeader, Row(<<"B1">>, 10, 50000, 100, Ten),
                       Row(<<"B1">>, 20, 50000, 100, Ten),
                       Row(<<"B1">>, 30, 50000, 100, Ten)>>}
        \cup
        {<<BaseHeader, Row(<<"B1">>, 12, 1000, 1000, Tenth),
                       Row(<<"B1">>, 13, 3000, 2000, <<"0", ",", "3", "%">>)>>}

InitDashboard ==
    /\ data \in {<<BaseHeader, AnchorRow, r>> : r \in SecondRows}
                  \cup {SheetWithout(i) : i \in 1..Len(BaseHeader)}
                  \cup FitSheets
    /\ username \in {<< >>, <<"bob">>, <<"zed">>}
    /\ pc = "start"
    /\ ret = NotCalled
    /\ widgets = DefaultUi
    /\ outcome = NotRun
    /\ bars = << >>
    /\ telemetry = << >>
    /\ page = NotPlotted
    /\ metadata_file = [kind |-> "missing", cache |-> << >>]
    /\ session = FirstVisit

\* nothing selected, one of the options, or all of them
Selections(options) ==
    {<< >>, [i \in 1..Len(options) |-> options[i].s]} \cup {<<options[i].s>> : i \in 1..Len(options)}

\* the widgets off their defaults, among those tried one at a time
OffDefault(u) ==
    Cardinality({k \in {"tesla", "version", "y_axis_data", "filter_option", "wide"} :
                    u[k] # DefaultUi[k]})

\* what the user can set on the dataset df: each multiselect offers the
\* values left by the selections above it (lines 254-268); the script fails
\* before any widget is drawn when df lacks a category column
UiChoices(df) ==
    IF ~HasCol(df, cTesla) \/ ~HasCol(df, cVersion) \/ ~HasCol(df, cBattery)
    THEN {DefaultUi}
    ELSE UNION {UNION {UNION {
            {u \in [tesla : {t}, version : {v}, battery : {b},
                    x_axis_data : {"Age", "Odometer", "Cycles"},
                    y_axis_data : {"Degradation", "Capacity", "Rated Range"},
                    hide_replaced_packs : BOOLEAN,
                    filter_option : {"Off", "Daily SOC Limit", "AC/DC Ratio"},
                    wide : BOOLEAN] : OffDefault(u) <= 1} :
            b \in Selections(BatteryOptions(df, t, v))} :
            v \in Selections(VersionOptions(df, t))} :
            t \in Selections(TeslaOptions(df))}

\* lines 770-783: the records that are grouped, by Version within the one
\* selected battery or else by Battery
Aggregated(G, u) ==
    IF Len(u.battery) = 1
    THEN WhereEq(G.s, cBattery, StrV(u.battery[1]))
    ELSE G.s

\* lines 772 and 782: groupby(key)['DegradationPerX'].agg(['mean', 'count'])
\* and reset_index(): one row per value of the key, in the order of the
\* keys (the Version and Battery values of the sheets, by code point)
GroupBy(df, key) ==
    LET Bar(k, vals) ==
            [key |-> k, mean |-> ValDiv(SumV(vals), IntV(Len(vals))),
             count |-> Len(vals)]
        keys == SelectSeq(<< << >>, <<"B1">>, <<"B2">>, <<"LR">>, <<"SR">> >>,
                    LAMBDA k : \E r \in 1..Len(df.rows) :
                                   At(df, df.rows[r], key) = StrV(k))
    IN  [i \in 1..Len(keys) |->
            Bar(keys[i], Column(WhereEq(df, key, StrV(keys[i])), cDegradationPerX))]

\* lines 775 and 785: sort_values(by='mean', ascending=True) with the default
\* kind 'quicksort', which is not a stable sort: every order of the rows
\* that ascends by mean is one the sort can give
sort_values_by_mean(frame) ==
    {[i \in 1..Len(frame) |-> frame[p[i]]] :
        p \in {q \in [1..Len(frame) -> 1..Len(frame)] :
                 /\ \A i, j \in 1..Len(frame) : i # j => q[i] # q[j]
                 /\ \A i, j \in 1..Len(frame) :
                        i < j => ~ValLt(frame[q[j]].mean, frame[q[i]].mean)}}

\* round(x) and f"{x:.0f}" of a finite float: the nearest integer, a tie
\* going to the even one
Round(v) ==
    LET q == v.n \div v.d
    IN  IF 2 * (v.n - q * v.d) < v.d THEN q
        ELSE IF 2 * (v.n - q * v.d) > v.d THEN q + 1
        ELSE IF q % 2 = 0 THEN q ELSE q + 1

\* a fit that ignores X: the horizontal line through the mean of y
LinearFitFlat(xs, ys) ==
    [coef |-> IntV(0), intercept |-> ValDiv(SumV(ys), IntV(Len(ys)))]

\* lines 642-644: LinearRegression().fit(X, y) on one feature, the least
\* squares line through the centred data; where all X are equal the
\* minimum-norm solution has the coefficient 0
LinearFit(xs, ys) ==
    LET Mean(v) == ValDiv(SumV(v), IntV(Len(v)))
        Minus(a, b) == ValAdd(a, ValMul(IntV(-1), b))
        Centred(v, m) == [i \in 1..Len(v) |-> Minus(v[i], m)]
        Dot(a, b) == SumV([i \in 1..Len(a) |-> ValMul(a[i], b[i])])
        Line(coef, mx, my) ==
            [coef |-> coef, intercept |-> Minus(my, ValMul(coef, mx))]
        Slope(sxx, sxy) == IF sxx.n = 0 THEN IntV(0) ELSE ValDiv(sxy, sxx)
        Fit(dx, dy, mx, my) == Line(Slope(Dot(dx, dx), Dot(dx, dy)), mx, my)
    IN  Fit(Centred(xs, Mean(xs)), Centred(ys, Mean(ys)), Mean(xs), Mean(ys))

\* line 648: (soh_70_degradation - lin_reg.intercept_) / lin_reg.coef_, a
\* numpy division, which gives an infinity or NaN for a zero coefficient
predicted_x_value(fit) ==
    ValDiv(ValAdd(IntV(-30), ValMul(IntV(-1), fit.intercept)), fit.coef)

\* years_text without the lower end of the plausible range
years_text_from_zero(predicted_years) ==
    IF ValLe(IntV(0), predicted_years) /\ ValLe(predicted_years, IntV(20))
    THEN IntStr(Round(predicted_years)) \o <<" ", "years">>
    ELSE <<"unknown">>

\* lines 654-658 and 679-683
years_text(predicted_years) ==
    IF ValLe(IntV(7), predicted_years) /\ ValLe(predicted_years, IntV(20))
    THEN IntStr(Round(predicted_years)) \o <<" ", "years">>
    ELSE <<"unknown">>

\* lines 661-672 and 689-694
kilometers_text(predicted) ==
    IF ValLe(IntV(300000), predicted) /\ ValLe(predicted, IntV(1500000))
    THEN IntStr(Round(ValDiv(predicted, IntV(100000))) * 100000)
             \o <<" ", "kilometers">>
    ELSE <<"unknown">>

\* display_text with one fit only: the years are taken from the fit against
\* the X-axis field, whatever that field is
display_text_of_one_fit(df, battery_type, ui) ==
    LET Projected(name) ==
            predicted_x_value(LinearFit(Column(df, name), Column(df, cDegradation)))
        Text(years, kilometers) ==
            [kind |-> "projection", battery |-> battery_type,
             years_text |-> years, kilometers_text |-> kilometers,
             after |-> SelectSeq(<<years, kilometers>>,
                                 LAMBDA t : t # <<"unknown">>)]
    IN  IF Len(df.rows) > 1
        THEN Text(years_text(ValDiv(Projected(x_column(ui)), IntV(12))),
                  IF HasCol(df, cOdometer) THEN kilometers_text(Projected(cOdometer))
                  ELSE kilometers_text(Projected(x_column(ui))))
        ELSE [kind |-> "insufficient", battery |-> battery_type,
              years_text |-> None, kilometers_text |-> None, after |-> << >>]

\* lines 640-710 for one battery_type, on selected_battery_df after line 635.
\* Lines 653-672 set years_text or kilometers_text from the fit against the
\* X-axis field; lines 675-683 set years_text from a fit against Age when
\* the X-axis is not Age; lines 686-694 set kilometers_text from a fit
\* against Odometer whatever the X-axis is.
display_text(df, battery_type, ui) ==
    LET Projected(name) ==
            predicted_x_value(LinearFit(Column(df, name), Column(df, cDegradation)))
        Text(years, kilometers) ==
            [kind |-> "projection", battery |-> battery_type,
             years_text |-> years, kilometers_text |-> kilometers,
             after |-> SelectSeq(<<years, kilometers>>,
                                 LAMBDA t : t # <<"unknown">>)]
    IN  IF Len(df.rows) > 1
        THEN Text(IF ui.x_axis_data = "Age" \/ HasCol(df, cAge)
                  THEN years_text(ValDiv(
                           Projected(IF ui.x_axis_data = "Age"
                                     THEN x_column(ui) ELSE cAge),
                           IntV(12)))
                  ELSE None,
                  IF HasCol(df, cOdometer) THEN kilometers_text(Projected(cOdometer))
                  ELSE IF ui.x_axis_data = "Age" THEN None
                  ELSE kilometers_text(Projected(x_column(ui))))
        ELSE [kind |-> "insufficient", battery |-> battery_type,
              years_text |-> None, kilometers_text |-> None, after |-> << >>]

\* the loop of line 630 left after its first battery
ProjectionOfFirst(G, ui) ==
    IF G.err # "" THEN G
    ELSE [G EXCEPT !.result_texts =
            [i \in 1..(IF ui.battery = << >> THEN 0 ELSE 1) |->
                display_text(
                    dropna(ReplaceInf(WhereEq(G.f, cBattery, StrV(ui.battery[i]))),
                           {x_column(ui), cDegradation}),
                    ui.battery[i], ui)]]

\* lines 628-710: one text per selected battery, from the local filtered_df
Projection(G, ui) ==
    IF G.err # "" THEN G
    ELSE [G EXCEPT !.result_texts =
            [i \in 1..Len(ui.battery) |->
                display_text(
                    dropna(ReplaceInf(WhereEq(G.f, cBattery, StrV(ui.battery[i]))),
                           {x_column(ui), cDegradation}),
                    ui.battery[i], ui)]]

\* lines 769-783: the frame of group means and counts, before it is sorted
Grouped(G, u) ==
    IF G.err # "" THEN G
    ELSE [G EXCEPT !.grouped =
            GroupBy(Aggregated(G, u),
                    IF Len(u.battery) = 1 THEN cVersion ELSE cBattery)]

\* lines 235-783 on the dataset that fetch_data returned
Script(df, bpc, u) ==
    Grouped(
        DegradationPerX(
            Projection(
                MarkerSymbol(
                    ScatterData(Sidebar(SelectByCategory(NotRun, df, u), bpc, u), u),
                    bpc),
                u),
            u),
        u)

\* the script body after line 232.  Lines 384-387: when the run gets there
\* the button "Clear Cache" is drawn, and if the user pressed it to start
\* this run st.cache_data.clear() drops everything that is memoized.
Render ==
    /\ pc = "fetched"
    /\ ret.kind = "return"
    /\ \E u \in IF session.kept THEN {widgets} ELSE UiChoices(ret.df) :
          /\ widgets' = u
          /\ outcome' = Script(ret.df, ret.bpc, u)
    /\ pc' = IF outcome'.err = "" THEN "rendered" ELSE "crashed"
    /\ bars' \in sort_values_by_mean(outcome'.grouped)
    /\ session' = IF outcome'.err # "" /\ outcome'.line < 384
                  THEN [session EXCEPT !.drawn = FALSE]
                  ELSE [session EXCEPT
                          !.drawn = TRUE,
                          !.store = IF session.pressed THEN << >> ELSE @,
                          !.cleared = IF session.pressed THEN @ + 1 ELSE @]
    /\ UNCHANGED <<data, username, ret, telemetry, page, metadata_file>>

Next == Fetch \/ Render

Spec == InitDashboard /\ [][Next]_vars

\* the runs of the script after the first one of a session
MaxRuns == 2

\* the user starts the next run of the script, dt seconds after the last
\* one began: by the button "Clear Cache" if the last run drew it, by
\* another text in the username field, or by a plain rerun
Rerun ==
    /\ pc \in {"rendered", "crashed"} \/ (pc = "fetched" /\ ret.kind = "raise")
    /\ session.runs < MaxRuns
    /\ \E dt \in {120, 200}, does \in {"rerun", "search", "clear"} :
          /\ does = "clear" => session.drawn
          /\ username' = IF does # "search" THEN username
                         ELSE IF username = << >> THEN <<"bob">> ELSE << >>
          /\ session' = [session EXCEPT !.clock = @ + dt, !.runs = @ + 1,
                                        !.pressed = (does = "clear")]
    /\ pc' = "start"
    /\ UNCHANGED <<data, ret, widgets, outcome, bars, telemetry, page, metadata_file>>

\* a session on a sheet of two records, on a sheet without the Age column
\* (fetch_data raises) or without the Username column (fetch_data returns
\* the empty dataset), with the remote sheet answering or not, and with the
\* widgets other than the username field left at their defaults
InitMemo ==
    /\ data \in {<<BaseHeader, AnchorRow, BobRow>>,
                  SheetWithout(Index(BaseHeader, cAge)),
                  SheetWithout(Index(BaseHeader, cUsername))}
    /\ username \in {<< >>, <<"bob">>}
    /\ session \in {[FirstVisit EXCEPT !.kept = TRUE, !.remote = r] :
                       r \in {"ok", "APIError"}}
    /\ pc = "start"
    /\ ret = NotCalled
    /\ widgets = DefaultUi
    /\ outcome = NotRun
    /\ bars = << >>
    /\ telemetry = << >>
    /\ page = NotPlotted
    /\ metadata_file = [kind |-> "missing", cache |-> << >>]

SpecMemo == InitMemo /\ [][Fetch \/ Render \/ Rerun]_vars

-----------------------------------------------------------------------------
(* The Performance page, pages/01_Performance.py: one run over the CSV      *)
(* files of the selected folders.  A file is [name, meta, plot, df]: meta   *)
(* and plot say what the two requests for it (lines 200-202 and 341-343)    *)
(* come to, "ok" or the exception that requests.get, decode or read_csv     *)
(* raises, and df is the table read_csv gives.  The metadata cache is       *)
(* empty and every file is a file of a selected folder.                     *)

\* lines 212-213 and 346: ffill() and then bfill() of the columns names
ffill_bfill(df, names) ==
    LET Fill(vals, r) ==
            IF \E q \in 1..r : ~IsNaN(vals[q])
            THEN vals[CHOOSE q \in 1..r :
                         ~IsNaN(vals[q]) /\ \A k \in (q + 1)..r : IsNaN(vals[k])]
            ELSE IF \E q \in r..Len(vals) : ~IsNaN(vals[q])
            THEN vals[CHOOSE q \in r..Len(vals) :
                         ~IsNaN(vals[q]) /\ \A k \in r..(q - 1) : IsNaN(vals[k])]
            ELSE NaN
    IN  [df EXCEPT !.rows =
            [r \in 1..Len(@) |->
                [c \in 1..Len(df.cols) |->
                    IF df.cols[c] \in names
                    THEN Fill([q \in 1..Len(df.rows) |-> df.rows[q][c]], r)
                    ELSE @[r][c]]]]

\* lines 21-26 on the file metadata_cache.json: without the file the cache
\* is empty; json.load raises on a file whose content is not JSON
load_metadata_cache(file) ==
    IF file.kind = "missing" THEN [err |-> "", cache |-> << >>]
    ELSE IF file.kind = "corrupt"
    THEN [err |-> "JSONDecodeError", cache |-> << >>]
    ELSE [err |-> "", cache |-> file.cache]

\* lines 197-230 for the file and the dict metadata_cache as it is at the
\* call: the stored entry if there is one (requested says whether line 203
\* was reached); otherwise an exception of the request or of read_csv
\* leaves the function, or the headers and the first valid SOC and Cell
\* temp mid are returned, rounded (valid says there are any; row is the
\* pair of readings they were rounded from)
fetch_csv_headers_and_first_valid_values(file, metadata_cache) ==
    LET Meta(err, headers, valid, soc, temp, requested, row) ==
            [err |-> err, headers |-> headers, valid |-> valid,
             SOC |-> soc, temp |-> temp, requested |-> requested, row |-> row]
        First(df) ==
            IF df.rows = << >> THEN Meta("", df.cols, FALSE, 0, 0, TRUE, << >>)
            ELSE Meta("", df.cols, TRUE,
                      Round(At(df, df.rows[1], <<"SOC">>)),
                      Round(At(df, df.rows[1], <<"Cell temp mid">>)),
                      TRUE,
                      <<At(df, df.rows[1], <<"SOC">>),
                        At(df, df.rows[1], <<"Cell temp mid">>)>>)
        Stored(entry) ==
            Meta("", entry.headers, entry.valid, entry.SOC, entry.temp, FALSE, << >>)
    IN  IF file.name \in DOMAIN metadata_cache THEN Stored(metadata_cache[file.name])
        ELSE IF file.meta # "ok" THEN Meta(file.meta, << >>, FALSE, 0, 0, TRUE, << >>)
        ELSE IF ~HasCol(file.df, <<"SOC">>) \/ ~HasCol(file.df, <<"Cell temp mid">>)
        THEN Meta("", file.df.cols, FALSE, 0, 0, TRUE, << >>)
        ELSE First(Between(Between(ffill_bfill(file.df, {<<"SOC">>, <<"Cell temp mid">>}),
                                   <<"SOC">>, IntV(-5), IntV(101)),
                           <<"Cell temp mid">>, IntV(-30), IntV(70)))

\* lines 341-433 for one file of filtered_file_info: the exception that
\* ends the run, or, for each selected column in turn, the series that the
\* file adds to plot_data (df is the frame of the rows of a series) and
\* whether st.warning or st.info was called
plot_data(file, selected_columns) ==
    LET columns_to_plot(column) ==                                \* 303-312
            CASE column = "Max Discharge Power [kW]" -> << <<"Max discharge power">> >>
              [] column = "Battery Power [kW]" -> << <<"Battery power">> >>
              [] column = "Battery Current [A]" -> << <<"Battery current">> >>
              [] column = "Battery Voltage [V]" -> << <<"Battery voltage">> >>
              [] column \in {"Front/Rear Motor Power [kW]", "Combined Motor Power [kW]"}
                    -> << <<"F power">>, <<"R power">> >>
              [] column \in {"Front/Rear Motor Torque [Nm]", "Combined Motor Torque [Nm]"}
                    -> << <<"F torque">>, <<"R torque">> >>
        Out(err, channels) ==
            [err |-> err, name |-> file.name, channels |-> channels]
        Series(column, label, d, y) ==
            [name |-> file.name, channel |-> column, label |-> label,
             X |-> Column(d, <<"Speed">>), Y |-> y, df |-> d]
        Result(column, series, warning, info) ==
            [name |-> file.name, channel |-> column, series |-> series,
             warning |-> warning, info |-> info]
        AtLeast(d, y, low) ==
            Where(d, [r \in 1..Len(d.rows) |-> ValLe(IntV(low), y[r])])
        Floor(column, label, d, y, low) ==                        \* 397, 423
            Series(column, label, AtLeast(d, y, low),
                   SelectSeq(y, LAMBDA v : ValLe(IntV(low), v)))
        combined_value(d, cols) ==                                \* 394
            [r \in 1..Len(d.rows) |->
                SumV([k \in 1..Len(cols) |-> At(d, d.rows[r], cols[k])])]
        Motors(d, column, y_cols, available_cols) ==              \* 389-416
            IF column \in {"Combined Motor Power [kW]", "Combined Motor Torque [Nm]"}
            THEN IF available_cols = << >>
                 THEN Result(column, << >>, TRUE, FALSE)
                 ELSE Result(column,
                             << IF column = "Combined Motor Power [kW]"
                                THEN Floor(column, <<"Combined">>, d,
                                           combined_value(d, available_cols), 20)
                                ELSE Series(column, <<"Combined">>, d,
                                            combined_value(d, available_cols)) >>,
                             FALSE, Len(available_cols) < Len(y_cols))
            ELSE Result(column,
                        [k \in 1..Len(available_cols) |->
                            Series(column, available_cols[k], d,
                                   Column(d, available_cols[k]))],
                        FALSE, Len(available_cols) < Len(y_cols))
        Single(d, column, y_cols) ==                              \* 417-430
            IF ~HasCol(d, y_cols) THEN Result(column, << >>, TRUE, FALSE)
            ELSE IF y_cols = <<"Battery power">>
            THEN Result(column, <<Floor(column, <<column>>, d, Column(d, y_cols), 40)>>,
                        FALSE, FALSE)
            ELSE Result(column, <<Series(column, <<column>>, d, Column(d, y_cols))>>,
                        FALSE, FALSE)
        Channel(d, column) ==                                     \* 384-430
            IF Len(columns_to_plot(column)) = 2
            THEN Motors(d, column, columns_to_plot(column),
                        SelectSeq(columns_to_plot(column), LAMBDA c : HasCol(d, c)))
            ELSE Single(d, column, columns_to_plot(column)[1])
        Channels(d) ==                                            \* 383
            Out("", [j \in 1..Len(selected_columns) |-> Channel(d, selected_columns[j])])
        subset_columns ==                                         \* 360-371
            {<<"Speed">>} \cup
            UNION {{columns_to_plot(selected_columns[j])[k] :
                       k \in 1..Len(columns_to_plot(selected_columns[j]))} :
                   j \in 1..Len(selected_columns)}
        Increasing(d) ==                                          \* 357-377
            IF ~HasCol(d, <<"Speed">>) THEN Out("KeyError", << >>)
            ELSE Channels(dropna(
                     Where(d, [r \in 1..Len(d.rows) |->
                                  \/ r = 1
                                  \/ IsNaN(At(d, d.rows[r], <<"Speed">>))
                                  \/ IsNaN(At(d, d.rows[r - 1], <<"Speed">>))
                                  \/ ValLt(At(d, d.rows[r - 1], <<"Speed">>),
                                           At(d, d.rows[r], <<"Speed">>))]),
                     subset_columns \cap {d.cols[c] : c \in 1..Len(d.cols)}))
        SpeedRange(d) ==                                          \* 352-353
            IF HasCol(d, <<"Speed">>)
            THEN Between(d, <<"Speed">>, IntV(0), IntV(210)) ELSE d
    IN  IF file.plot # "ok" THEN Out(file.plot, << >>)
        ELSE Increasing(SpeedRange(
                 Between(Between(ffill_bfill(file.df,
                                     {file.df.cols[c] : c \in 1..Len(file.df.cols)}),
                                 <<"SOC">>, IntV(0), IntV(101)),
                         <<"Cell temp mid">>, IntV(0), IntV(70))))

\* lines 33-433: one run of the script, from its start with the cache that
\* load_metadata_cache gave through the metadata loop to the plot loop.  ui
\* is what the user does with the sliders (when they are drawn) and with
\* the channel checkboxes, before the set of the identifiers that
\* fetch_csv_headers_and_first_valid_values has downloaded and returned
\* for in the runs before this one.
Performance(batch, ui, loaded, before) ==
    LET RECURSIVE Cat(_)
        Cat(ss) == IF ss = << >> THEN << >> ELSE ss[1] \o Cat(Tail(ss))
        Drawn(state, err, note, infos, filtered, channels) ==
            [state |-> state, err |-> err, note |-> note,
             warnings |-> SelectSeq(channels, LAMBDA c : c.warning),
             infos |-> SelectSeq(channels, LAMBDA c : c.info),
             file_info |-> infos, filtered_file_info |-> filtered,
             plot_data |-> Cat([k \in 1..Len(channels) |-> channels[k].series])]
        Page(state, err, note, infos, filtered, plots) ==
            Drawn(state, err, note, infos, filtered,
                  Cat([k \in 1..Len(plots) |-> plots[k].channels]))
        FirstErr(outs) ==
            CHOOSE k \in 1..(Len(outs) + 1) :
                /\ k <= Len(outs) => outs[k].err # ""
                /\ \A j \in 1..(k - 1) : outs[j].err = ""
        Plotted(infos, filtered, plots) ==                        \* 336-433
            IF FirstErr(plots) <= Len(plots)
            THEN Page("crashed", plots[FirstErr(plots)].err, "", infos, filtered,
                      SubSeq(plots, 1, FirstErr(plots) - 1))
            ELSE Page("plotted", "", "", infos, filtered, plots)
        Selected(infos, filtered) ==                              \* 288-320
            IF filtered = << >>
            THEN Page("stopped", "", "No data files match the selected SOC and temperature ranges.",
                      infos, filtered, << >>)
            ELSE IF ui.selected_columns = << >>
            THEN Page("stopped", "", "Please select at least one column to plot.",
                      infos, filtered, << >>)
            ELSE Plotted(infos, filtered,
                         [k \in 1..Len(filtered) |->
                             plot_data(batch[filtered[k].file], ui.selected_columns)])
        Low(infos, f) ==
            CHOOSE v \in {infos[k][f] : k \in 1..Len(infos)} :
                \A k \in 1..Len(infos) : v <= infos[k][f]
        High(infos, f) ==
            CHOOSE v \in {infos[k][f] : k \in 1..Len(infos)} :
                \A k \in 1..Len(infos) : v >= infos[k][f]
        Ranged(infos, soc, temp) ==                               \* 288-292
            Selected(infos,
                     SelectSeq(infos, LAMBDA i :
                         /\ soc[1] <= i.SOC /\ i.SOC <= soc[2]
                         /\ temp[1] <= i.temp /\ i.temp <= temp[2]))
        Sliders(infos, min_soc, max_soc, min_temp, max_temp) ==   \* 270-285
            IF min_soc # max_soc /\ ~(min_soc <= 95 /\ 100 <= max_soc)
            THEN Page("crashed", "StreamlitAPIException", "", infos, << >>, << >>)
            ELSE Ranged(infos,
                        IF min_soc = max_soc \/ ui.soc = "narrow"
                        THEN <<min_soc, IF min_soc = max_soc THEN max_soc ELSE min_soc>>
                        ELSE <<95, 100>>,
                        IF min_temp = max_temp \/ ui.temp = "full"
                        THEN <<min_temp, max_temp>> ELSE <<min_temp, min_temp>>)
        Collected(infos) ==                                       \* 261-268
            IF infos = << >>
            THEN Page("stopped", "", "No data files found after applying the filters.",
                      infos, << >>, << >>)
            ELSE Sliders(infos, Low(infos, "SOC"), High(infos, "SOC"),
                         Low(infos, "temp"), High(infos, "temp"))
        Info(metas) ==                                            \* 240-256
            IF FirstErr(metas) <= Len(metas)
            THEN Page("crashed", metas[FirstErr(metas)].err, "", << >>, << >>, << >>)
            ELSE Collected(
                   [k \in 1..Len(SelectSeq(metas, LAMBDA m : m.valid)) |->
                       [file |-> SelectSeq(metas, LAMBDA m : m.valid)[k].file,
                        SOC  |-> SelectSeq(metas, LAMBDA m : m.valid)[k].SOC,
                        temp |-> SelectSeq(metas, LAMBDA m : m.valid)[k].temp,
                        row  |-> SelectSeq(metas, LAMBDA m : m.valid)[k].row]])
        Cache(metas, calls, returns) ==                           \* 199-265
            [ui |-> ui, before |-> before,
             requests |-> LET asked == SelectSeq(SubSeq(metas, 1, calls),
                                                 LAMBDA m : m.requested)
                          IN  [k \in 1..Len(asked) |-> batch[asked[k].file].name],
             returned |-> before \cup
                 {batch[k].name : k \in {j \in 1..returns : metas[j].requested}},
             metadata_cache |->
                 [n \in DOMAIN loaded.cache \cup {batch[k].name : k \in 1..returns} |->
                     IF n \in DOMAIN loaded.cache THEN loaded.cache[n]
                     ELSE LET m == metas[CHOOSE k \in 1..returns : batch[k].name = n]
                          IN  [headers |-> m.headers, valid |-> m.valid,
                               SOC |-> m.SOC, temp |-> m.temp]],
             saved |-> returns = Len(metas)]
        Run(metas) ==
            Cache(metas, IF FirstErr(metas) <= Len(metas) THEN FirstErr(metas)
                         ELSE Len(metas),
                  FirstErr(metas) - 1)
            @@ Info(metas)
    IN  IF loaded.err # ""
        THEN [ui |-> ui, before |-> before, requests |-> << >>, returned |-> before,
              metadata_cache |-> << >>, saved |-> FALSE]
             @@ Page("crashed", loaded.err, "", << >>, << >>, << >>)          \* 33
        ELSE Run([i \in 1..Len(batch) |->
                     [file |-> i] @@ fetch_csv_headers_and_first_valid_values(
                                         batch[i], loaded.cache)])

\* the longest telemetry file, in rows
MaxRows == 4

\* the folder's files and the cache file before the first run: one file
\* with every sequence of speeds up to MaxRows rows, with readings in and
\* out of the valid ranges, or with motor columns, alone in its folder; or a
\* file of four rows before or after one more file, each of them with
\* requests that succeed or fail and with or without its columns.  The
\* folders whose first file is the file of four rows are tried with no
\* cache file, with one that is not JSON and with one that has an entry for
\* that file.
InitPerformance ==
    LET Cols == << <<"SOC">>, <<"Cell temp mid">>, <<"Speed">>, <<"Battery voltage">> >>
        Frame(cols, cell(_, _), n) ==
            [cols |-> cols, flt |-> 1..Len(cols),
             rows |-> [r \in 1..n |-> [c \in 1..Len(cols) |-> cell(cols[c], r)]]]
        Table(cols, soc, speeds) ==
            Frame(cols,
                  LAMBDA name, r :
                      CASE name = <<"SOC">> -> IntV(soc)
                        [] name = <<"Cell temp mid">> -> IntV(30)
                        [] name = <<"Speed">> -> speeds[r]
                        [] OTHER -> IntV(400),
                  Len(speeds))
        Readings(soc, temp, speeds) ==
            Frame(Cols,
                  LAMBDA name, r :
                      CASE name = <<"SOC">> -> IntV(soc[r])
                        [] name = <<"Cell temp mid">> -> IntV(temp[r])
                        [] name = <<"Speed">> -> IntV(speeds[r])
                        [] OTHER -> IntV(400),
                  Len(speeds))
        Motor(names, rear) ==
            Frame(Cols \o names,
                  LAMBDA name, r :
                      CASE name = <<"SOC">> -> IntV(96)
                        [] name = <<"Cell temp mid">> -> IntV(30)
                        [] name = <<"Speed">> -> IntV(10 * r)
                        [] name = <<"Battery voltage">> -> IntV(400)
                        [] name = <<"F torque">> -> IntV(100)
                        [] name = <<"F power">> -> IntV(15 * r)
                        [] OTHER -> rear[r],
                  Len(rear))
        File(name, meta, plot, df) ==
            [name |-> name, meta |-> meta, plot |-> plot, df |-> df]
        Status == {"ok", "ConnectionError", "ParserError"}
        Speeds == {IntV(10), IntV(15), IntV(20), IntV(30)}
        Without(name) == SelectSeq(Cols, LAMBDA c : c # name)
        Others ==
            {File("b", m, q, Table(Cols, 96, <<IntV(10), IntV(20)>>)) :
                 m \in Status, q \in Status}
            \cup {File("b", "ok", "ok", Table(Without(n), 96, <<IntV(10), IntV(20)>>)) :
                     n \in {Cols[c] : c \in 1..Len(Cols)}}
            \cup {File("b", "ok", "ok", Table(Cols, k, <<IntV(10), NaN, IntV(250), IntV(20)>>)) :
                     k \in {50, 95, 100, 120}}
        Main == File("a", "ok", "ok",
                     Table(Cols, 96, <<IntV(10), IntV(20), IntV(15), IntV(30)>>))
        Mixed ==
            {Readings(<<-7, -3, 0, 101>>, <<30, 30, 30, 30>>, <<10, 20, 30, 40>>),
             Readings(<<96, 96, 96, 96>>, <<-40, -10, 0, 70>>, <<10, 20, 30, 40>>),
             Readings(<<96, 96, 96, 96>>, <<30, 30, 30, 30>>, <<0, 250, 100, 210>>)}
        Motors ==
            {Motor(names, rear) :
                 names \in {<< <<"F torque">> >>, << <<"F torque">>, <<"R torque">> >>,
                            << <<"R torque">> >>, << <<"F power">> >>,
                            << <<"F power">>, <<"R power">> >>},
                 rear \in {<<IntV(50), IntV(50), IntV(50)>>, <<NaN, NaN, NaN>>,
                           <<NaN, IntV(50), IntV(50)>>}}
        Entries ==
            {[headers |-> Cols, valid |-> TRUE, SOC |-> 90, temp |-> 20],
             [headers |-> Cols, valid |-> FALSE, SOC |-> 0, temp |-> 0]}
    IN  /\ telemetry \in
              {<<File("a", "ok", "ok", Table(Cols, 96, sp))>> :
                   sp \in SeqsUpTo(Speeds, MaxRows)}
              \cup {<<File("a", "ok", "ok", df)>> : df \in Mixed \cup Motors}
              \cup {<<Main, g>> : g \in Others} \cup {<<g, Main>> : g \in Others}
              \cup {<< >>}
        /\ metadata_file \in
              {[kind |-> "missing", cache |-> << >>]}
              \cup IF telemetry # << >> /\ telemetry[1] = Main
                   THEN {[kind |-> "corrupt", cache |-> << >>]}
                        \cup {[kind |-> "json", cache |-> [n \in {"a"} |-> e]] :
                                 e \in Entries}
                   ELSE {}
        /\ page = NotPlotted
        /\ session = FirstVisit
        /\ data = <<BaseHeader, AnchorRow>>
        /\ username = << >>
        /\ pc = "start"
        /\ ret = NotCalled
        /\ widgets = DefaultUi
        /\ outcome = NotRun
        /\ bars = << >>

\* one run of the Performance page: the first with the sliders and the
\* checkboxes as the user sets them, a later one with the widgets left as
\* they are.  Line 265 writes the cache file when the run gets there.
Plot ==
    /\ \E ui \in IF page.state # "start" THEN {page.ui}
                 ELSE [soc : {"default", "narrow"}, temp : {"full", "narrow"},
                       selected_columns :
                           {<< >>, << "Battery Voltage [V]" >>,
                            << "Combined Motor Torque [Nm]" >>,
                            << "Combined Motor Power [kW]" >>,
                            << "Front/Rear Motor Torque [Nm]" >>,
                            << "Battery Voltage [V]", "Combined Motor Torque [Nm]" >>}] :
          page' = Performance(telemetry, ui, load_metadata_cache(metadata_file),
                              page.returned)
    /\ metadata_file' = IF page'.saved
                        THEN [kind |-> "json", cache |-> page'.metadata_cache]
                        ELSE metadata_file
    /\ UNCHANGED <<data, username, pc, ret, widgets, outcome, bars, telemetry,
                   session>>

SpecPerformance == InitPerformance /\ [][Plot]_vars


-----------------------------------------------------------------------------
(* Properties of fetch_data *)

Fetched == pc = "fetched"

\* fetch_data got as far as line 94 and built unique_header
Reached94 ==
    /\ Fetched
    /\ InList(cUsername, data[1])
    /\ ~(ret.kind = "raise" /\ ret.line < 94)

Distinct(seq) == \A i, j \in 1..Len(seq) : i # j => seq[i] # seq[j]

\* the number of occurrences of seq[i] among seq[1..i]
Occurrence(seq, i) == Cardinality({j \in 1..i : seq[j] = seq[i]})

\* the rule of the specification on the kept, trimmed header names
RuleHeader(names) ==
    [i \in 1..Len(names) |->
        IF Occurrence(names, i) = 1 THEN names[i]
        ELSE names[i] \o <<"_">> \o IntStr(Occurrence(names, i))]

TrimmedKept(header) ==
    LET fh == filtered_header(header) IN [i \in 1..Len(fh) |-> Strip(fh[i])]

\* C1: for every header row that has the Username column, fetch_data builds
\* the unique header list in which the first occurrence of a kept name is
\* unchanged and its k-th occurrence (k >= 2) is name_k.
C1_HeaderRule ==
    (Fetched /\ InList(cUsername, data[1]))
        => /\ Reached94
           /\ ret.unique_header = RuleHeader(TrimmedKept(data[1]))

\* a header row where a name occurs three times has been fetched
C1_Reached ==
    /\ Reached94
    /\ \E i \in 1..Len(TrimmedKept(data[1])) :
          Occurrence(TrimmedKept(data[1]), i) = 3

\* C2: the de-duplicated header list that fetch_data builds holds pairwise
\* distinct keys.
C2_DistinctKeys == Reached94 => Distinct(ret.unique_header)

\* a header row with a repeated name has been de-duplicated
C2_Reached ==
    /\ Reached94
    /\ ~Distinct(TrimmedKept(data[1]))
    /\ Distinct(ret.unique_header)

\* the cell of the returned record r under the column labelled f
Field(r, f) == ret.df.rows[r][ColPos(ret.df, f)]

ReturnedRecords ==
    IF Fetched /\ ret.kind = "return" THEN 1..Len(ret.df.rows) ELSE {}

\* C3: the Degradation of every returned record is strictly negative or
\* null, never zero.
C3_NegativeOrNull ==
    \A r \in ReturnedRecords :
        \/ IsNaN(Field(r, cDegradation))
        \/ IsInf(Field(r, cDegradation)) /\ Field(r, cDegradation).n < 0
        \/ IsNum(Field(r, cDegradation)) /\ Field(r, cDegradation).n < 0

\* a raw "0,0%" has been folded to null
C3_Reached ==
    /\ Fetched /\ ret.kind = "return"
    /\ data = SheetWithCell(cDegradation, <<"0", ",", "0", "%">>)
    /\ IsNaN(Field(2, cDegradation))

\* the raw cell of the second data row under header f
RawCell(f) == data[3][Index(data[1], f)]

\* digits "," digits "%"
IsPercentForm(c) ==
    /\ Len(c) >= 4
    /\ c[Len(c)] = "%"
    /\ \E i \in 2..(Len(c) - 2) :
          /\ c[i] = ","
          /\ \A j \in 1..(Len(c) - 1) : j # i => c[j] \in Digits

CommaAt(c) == CHOOSE i \in 1..Len(c) : c[i] = ","

\* C4: a raw Degradation of the form digits "," digits "%" is read with the
\* comma as decimal point and the sign reversed, except that "0,0%" is null;
\* "12,5%" becomes -12.5.
C4_DegradationCoercion ==
    (Fetched /\ ret.kind = "return" /\ Len(data) = 3
       /\ IsPercentForm(RawCell(cDegradation)))
    => LET c    == RawCell(cDegradation)
           i    == CommaAt(c)
           whole == DigitsVal(SubSeq(c, 1, i - 1))
           frac == DigitsVal(SubSeq(c, i + 1, Len(c) - 1))
           scale == Pow10(Len(c) - 1 - i)
           v    == Field(2, cDegradation)
       IN  IF c = <<"0", ",", "0", "%">> THEN IsNaN(v)
           ELSE /\ IsNum(v)
                /\ v.n * scale = -(whole * scale + frac) * v.d
                /\ (c = <<"1", "2", ",", "5", "%">> => v = Num(-25, 2))

\* "12,5%" has been fetched and parsed
C4_Reached ==
    /\ Fetched /\ ret.kind = "return"
    /\ data = SheetWithCell(cDegradation, <<"1", "2", ",", "5", "%">>)
    /\ Field(2, cDegradation) = Num(-25, 2)

\* C5: whatever the cells of the numeric fields hold, fetch_data returns the
\* dataset, with a number or null in every numeric field.
C5_NoParseFailurePropagates ==
    (Fetched /\ Len(data) = 3)
    => /\ ret.kind = "return"
       /\ \A r \in 1..Len(ret.df.rows) : \A f \in NumericFields :
              ~IsStr(Field(r, f))

\* an unparsable Rated Range has become null in a returned dataset
C5_Reached ==
    /\ Fetched /\ ret.kind = "return"
    /\ data = SheetWithCell(cRatedRange, <<"abc">>)
    /\ IsNaN(Field(2, cRatedRange))

HasDigit(c) == \E i \in 1..Len(c) : c[i] \in Digits

\* C6 as stated: a raw Odometer whose first character is not a digit becomes
\* null.
C6_NonDigitPrefixIsNull ==
    (Fetched /\ ret.kind = "return" /\ Len(data) = 3
       /\ RawCell(cOdometer) # << >> /\ RawCell(cOdometer)[1] \notin Digits)
    => IsNaN(Field(2, cOdometer))

\* C6 as amended: a raw Odometer becomes null exactly when it holds no digit
\* at all; "abc" is null, "abc123" is 123 and " 5000 km" is 5000.
C6_NoDigitIsNull ==
    (Fetched /\ ret.kind = "return" /\ Len(data) = 3)
    => LET c == RawCell(cOdometer)
           v == Field(2, cOdometer)
       IN  /\ IsNaN(v) <=> ~HasDigit(c)
           /\ HasDigit(c) => IsNum(v) /\ v.d = 1 /\ v.n >= 0
           /\ (c = <<"abc", "1", "2", "3">> => v = Num(123, 1))
           /\ (c = <<" ", "5", "0", "0", "0", " ", "km">> => v = Num(5000, 1))

\* "abc123" has been fetched and read as 123
C6_Reached ==
    /\ Fetched /\ ret.kind = "return"
    /\ data = SheetWithCell(cOdometer, <<"abc", "1", "2", "3">>)
    /\ Field(2, cOdometer) = Num(123, 1)

\* C7: the parsed Odometer is the number spelled by the first maximal run of
\* digits of the cell without its commas, and null when there is no digit;
\* "123,456 km" is 123456.
C7_FirstDigitRun ==
    (Fetched /\ ret.kind = "return" /\ Len(data) = 3)
    => LET s == SelectSeq(RawCell(cOdometer), LAMBDA a : a # ",")
           v == Field(2, cOdometer)
       IN  /\ ~HasDigit(s) => IsNaN(v)
           /\ HasDigit(s) =>
                \E i \in 1..Len(s) : \E j \in i..Len(s) :
                    /\ \A k \in 1..(i - 1) : s[k] \notin Digits
                    /\ \A k \in i..j : s[k] \in Digits
                    /\ j = Len(s) \/ s[j + 1] \notin Digits
                    /\ v = Num(DigitsVal(SubSeq(s, i, j)), 1)
           /\ (RawCell(cOdometer)
                 = <<"1", "2", "3", ",", "4", "5", "6", " ", "km">>
               => v = Num(123456, 1))

\* "123,456 km" has been fetched and read as 123456
C7_Reached ==
    /\ Fetched /\ ret.kind = "return"
    /\ data = SheetWithCell(cOdometer,
                            <<"1", "2", "3", ",", "4", "5", "6", " ", "km">>)
    /\ Field(2, cOdometer) = Num(123456, 1)

\* C8: when the header row lacks Username or Battery, fetch_data returns
\* the empty-result signal: an empty dataset and no battery-pack column.
C8_MissingColumnSignal ==
    (Fetched /\ (~InList(cUsername, data[1]) \/ ~InList(cBattery, data[1])))
    => /\ ret.kind = "return"
       /\ ret.df = EmptyDataFrame
       /\ ret.bpc = None

\* a sheet without the Username column has been answered with the signal
C8_Reached ==
    /\ Fetched /\ ~InList(cUsername, data[1])
    /\ ret.kind = "return" /\ ret.df = EmptyDataFrame /\ ret.bpc = None

\* C9: every numeric field of every returned record is a finite number or
\* null, never an infinity.
C9_FiniteOrNull ==
    \A r \in ReturnedRecords : \A f \in NumericFields :
        IsNum(Field(r, f)) \/ IsNaN(Field(r, f))

\* a dataset with all seven numeric fields typed has been returned
C9_Reached ==
    /\ Fetched /\ ret.kind = "return" /\ Len(ret.df.rows) = 2
    /\ \A f \in NumericFields : IsNum(Field(2, f))

-----------------------------------------------------------------------------
(* Properties of the derived metric *)

Rendered == pc = "rendered"

\* C10: every record that enters the DegradationPerX aggregate has a
\* denominator (Age, Odometer or Cycles, as the X-axis says) that is a
\* number strictly greater than 0.
C10_PositiveDenominator ==
    Rendered =>
        LET agg == Aggregated(outcome, widgets)
        IN  \A r \in 1..Len(agg.rows) :
                LET x == At(agg, agg.rows[r], denominator_column(widgets))
                IN  IsNum(x) /\ x.n > 0

\* with the X-axis on Cycles, a record of zero cycles has been left out of
\* the aggregate and the other record has entered it
C10_Reached ==
    /\ Rendered
    /\ widgets.x_axis_data = "Cycles"
    /\ widgets.battery = << >>
    /\ Len(data) = 3 /\ RawCell(cCycles) = <<"0">>
    /\ Len(ret.df.rows) = 2
    /\ Len(Aggregated(outcome, widgets).rows) = 1

\* C11: every record of the dataset that is aggregated has a DegradationPerX
\* that is a finite number other than zero and equals
\* degradation / (denominator / divisor), where the divisor is 1000 when the
\* X-axis is Odometer and 1 otherwise.
C11_DegradationPerX ==
    Rendered =>
        LET agg == Aggregated(outcome, widgets)
        IN  \A r \in 1..Len(agg.rows) :
                LET v   == At(agg, agg.rows[r], cDegradationPerX)
                    deg == At(agg, agg.rows[r], cDegradation)
                    den == At(agg, agg.rows[r], denominator_column(widgets))
                IN  /\ IsNum(v) /\ IsNum(deg) /\ IsNum(den)
                    /\ v.n # 0 /\ den.n # 0
                    /\ v.n * deg.d * den.n
                         = v.d * deg.n * den.d
                             * (IF widgets.x_axis_data = "Odometer" THEN 1000 ELSE 1)

\* with the X-axis on Cycles the record of 100 cycles and -10 % has entered
\* the aggregate with -0.1
C11_Reached ==
    /\ Rendered
    /\ widgets.x_axis_data = "Cycles"
    /\ LET agg == Aggregated(outcome, widgets)
       IN  \E r \in 1..Len(agg.rows) :
               /\ At(agg, agg.rows[r], cCycles) = IntV(100)
               /\ At(agg, agg.rows[r], cDegradation) = IntV(-10)
               /\ At(agg, agg.rows[r], cDegradationPerX) = Num(-1, 10)

-----------------------------------------------------------------------------
(* Properties of the bar chart *)

\* the key the records are grouped by
GroupKey == IF Len(widgets.battery) = 1 THEN cVersion ELSE cBattery

\* C12: the records are grouped by Battery, or by Version within the one
\* selected battery; each group reports the mean and the count of its
\* DegradationPerX values; the groups ascend by mean, and groups of equal
\* mean keep the order they had before the sort.
C12_GroupAggregation ==
    Rendered =>
        LET agg == Aggregated(outcome, widgets)
            Of(k) == {r \in 1..Len(agg.rows) : At(agg, agg.rows[r], GroupKey) = StrV(k)}
            Place(k) == CHOOSE i \in 1..Len(outcome.grouped) :
                            outcome.grouped[i].key = k
        IN  /\ {bars[i].key : i \in 1..Len(bars)}
                 = {At(agg, agg.rows[r], GroupKey).s : r \in 1..Len(agg.rows)}
            /\ \A i, j \in 1..Len(bars) : i # j => bars[i].key # bars[j].key
            /\ \A i \in 1..Len(bars) :
                  /\ bars[i].count = Cardinality(Of(bars[i].key))
                  /\ bars[i].mean
                       = ValDiv(SumV(Column(WhereEq(agg, GroupKey, StrV(bars[i].key)),
                                            cDegradationPerX)),
                                IntV(bars[i].count))
            /\ \A i, j \in 1..Len(bars) :
                  i < j =>
                     /\ ValLe(bars[i].mean, bars[j].mean)
                     /\ bars[i].mean = bars[j].mean
                           => Place(bars[i].key) < Place(bars[j].key)

\* two groups of equal mean have been drawn
C12_Reached ==
    /\ Rendered
    /\ Len(bars) = 2
    /\ bars[1].mean = bars[2].mean

-----------------------------------------------------------------------------
(* Properties of the projection *)

\* selected_battery_df of line 635 for battery b, from the local filtered_df
Usable(b) ==
    dropna(ReplaceInf(WhereEq(outcome.f, cBattery, StrV(b))),
           {x_column(widgets), cDegradation})

\* the fit of Degradation against the field name over Usable(b)
FitOn(b, name) ==
    LinearFit(Column(Usable(b), name), Column(Usable(b), cDegradation))

\* all values of the field are equal over Usable(b)
AllEqual(b, name) ==
    \A r \in 1..Len(Usable(b).rows) :
        At(Usable(b), Usable(b).rows[r], name) = At(Usable(b), Usable(b).rows[1], name)

\* C13: a selected battery with at least two observations whose fit is
\* degenerate (all degradation values equal, or all X values equal) does
\* not make the projection fail and gets the "insufficient data" message.
C13_DegenerateFit ==
    Rendered =>
        \A i \in 1..Len(widgets.battery) :
            (/\ Len(Usable(widgets.battery[i]).rows) >= 2
             /\ \/ AllEqual(widgets.battery[i], cDegradation)
                \/ AllEqual(widgets.battery[i], x_column(widgets)))
            => /\ i \in 1..Len(outcome.result_texts)
               /\ outcome.result_texts[i].kind = "insufficient"

\* battery B1 is selected and its two records have the same age: the script
\* has run to its end
C13_Reached ==
    /\ Rendered
    /\ widgets.battery = << <<"B1">> >>
    /\ widgets.x_axis_data = "Age"
    /\ Len(Usable(<<"B1">>).rows) = 2
    /\ AllEqual(<<"B1">>, cAge)
    /\ FitOn(<<"B1">>, cAge).coef = IntV(0)

\* C14: exactly one result text is produced per selected battery, in the
\* order of the selection; a battery with fewer than 2 usable observations
\* gets the "insufficient data" message, and the other selected batteries
\* get their own text in the same run.
C14_OneTextPerBattery ==
    Rendered =>
        /\ Len(outcome.result_texts) = Len(widgets.battery)
        /\ \A i \in 1..Len(widgets.battery) :
              /\ outcome.result_texts[i].battery = widgets.battery[i]
              /\ Len(Usable(widgets.battery[i]).rows) < 2
                    => outcome.result_texts[i].kind = "insufficient"

\* B1 and B2 are selected: B2 has one record and gets the message, B1 has
\* two and gets a projection of 12 years
C14_Reached ==
    /\ Rendered
    /\ widgets.battery = << <<"B1">>, <<"B2">> >>
    /\ widgets.x_axis_data = "Age"
    /\ Len(Usable(<<"B2">>).rows) = 1
    /\ outcome.result_texts[2].kind = "insufficient"
    /\ outcome.result_texts[1].kind = "projection"
    /\ outcome.result_texts[1].years_text = <<"1", "2", " ", "years">>

\* C15: the projected age of a battery is displayed as "N years", N the
\* projected years rounded, if and only if the projected years lie within
\* [7, 20], and is "unknown" otherwise.
C15_AgeClamp ==
    Rendered =>
        \A i \in 1..Len(widgets.battery) :
            outcome.result_texts[i].kind = "projection" =>
                LET p == predicted_x_value(FitOn(widgets.battery[i], cAge))
                    t == outcome.result_texts[i]
                IN  IF IsNum(p) /\ 84 * p.d <= p.n /\ p.n <= 240 * p.d
                    THEN /\ \E N \in 7..20 :
                              /\ t.years_text = IntStr(N) \o <<" ", "years">>
                              /\ 2 * Abs(12 * N * p.d - p.n) <= 12 * p.d
                         /\ t.years_text \in {t.after[k] : k \in 1..Len(t.after)}
                    ELSE /\ t.years_text = <<"unknown">>
                         /\ t.years_text \notin {t.after[k] : k \in 1..Len(t.after)}

\* a projection of 144 months has been displayed as "12 years"
C15_Reached ==
    /\ Rendered
    /\ widgets.battery = << <<"B1">> >>
    /\ predicted_x_value(FitOn(<<"B1">>, cAge)) = IntV(144)
    /\ outcome.result_texts[1].after[1] = <<"1", "2", " ", "years">>

\* C16: with the X-axis on Odometer or Cycles, the distance or cycle value
\* displayed for a battery is the projection of the fit against that X-axis
\* field (to the nearest 100000) if the projection lies within
\* [300000, 1500000], and "unknown" otherwise.
C16_DistanceClamp ==
    (Rendered /\ widgets.x_axis_data \in {"Odometer", "Cycles"}) =>
        \A i \in 1..Len(widgets.battery) :
            outcome.result_texts[i].kind = "projection" =>
                LET p == predicted_x_value(FitOn(widgets.battery[i], x_column(widgets)))
                    t == outcome.result_texts[i]
                IN  IF IsNum(p) /\ 300000 * p.d <= p.n /\ p.n <= 1500000 * p.d
                    THEN \E N \in 3..15 :
                            /\ t.kilometers_text
                                 = IntStr(N * 100000) \o <<" ", "kilometers">>
                            /\ Abs(N * 100000 * p.d - p.n) <= 50000 * p.d
                    ELSE t.kilometers_text = <<"unknown">>

\* with the X-axis on Cycles a cycles projection of 300000 lies in the
\* range and a text for the battery has been produced
C16_Reached ==
    /\ Rendered
    /\ widgets.x_axis_data = "Cycles"
    /\ widgets.battery = << <<"B1">> >>
    /\ predicted_x_value(FitOn(<<"B1">>, cCycles)) = IntV(300000)
    /\ outcome.result_texts[1].kind = "projection"

\* the observations of battery b lie on one line that is not vertical, in
\* the field name against Degradation
OnALine(b, name) ==
    LET df == Usable(b)
        X(r) == At(df, df.rows[r], name)
        Y(r) == At(df, df.rows[r], cDegradation)
    IN  /\ Len(df.rows) >= 2
        /\ X(1) # X(2)
        /\ \A r \in 1..Len(df.rows) :
              (Y(r).n * Y(1).d - Y(1).n * Y(r).d) * Y(2).d
                    * (X(2).n * X(1).d - X(1).n * X(2).d) * X(r).d
                = (Y(2).n * Y(1).d - Y(1).n * Y(2).d) * Y(r).d
                    * (X(r).n * X(1).d - X(1).n * X(r).d) * X(2).d

\* C17: for a selected battery whose observations lie exactly on a line, the
\* fit recovers the slope and the intercept of that line, the projected age
\* is (-30 - intercept) / slope, and the age result is "unknown" when the
\* projected years are outside [7, 20]: B1 with (10, -5), (20, -10),
\* (30, -15) gives -0.5 per month and 0, 60 months, and "unknown".
C17_EndToEnd ==
    (Rendered /\ widgets.x_axis_data = "Age") =>
        \A i \in 1..Len(widgets.battery) :
            OnALine(widgets.battery[i], cAge) =>
                LET df  == Usable(widgets.battery[i])
                    x1  == At(df, df.rows[1], cAge)
                    x2  == At(df, df.rows[2], cAge)
                    y1  == At(df, df.rows[1], cDegradation)
                    y2  == At(df, df.rows[2], cDegradation)
                    fit == FitOn(widgets.battery[i], cAge)
                    t   == outcome.result_texts[i]
                IN  /\ fit.coef.n * (x2.n * x1.d - x1.n * x2.d) * y1.d * y2.d
                         = fit.coef.d * (y2.n * y1.d - y1.n * y2.d) * x1.d * x2.d
                    /\ fit.intercept = ValAdd(y1, ValMul(IntV(-1), ValMul(fit.coef, x1)))
                    /\ (df.rows[1][ColPos(df, cAge)] = IntV(10)
                        /\ y1 = IntV(-5) /\ x2 = IntV(20) /\ y2 = IntV(-10))
                          => /\ fit.coef = Num(-1, 2)
                             /\ fit.intercept = IntV(0)
                             /\ predicted_x_value(fit) = IntV(60)
                             /\ t.years_text = <<"unknown">>
                    /\ fit.coef.n # 0 =>
                         LET p == predicted_x_value(fit)
                         IN  /\ p.n * fit.coef.n * fit.intercept.d
                                   = p.d * fit.coef.d
                                       * (-30 * fit.intercept.d - fit.intercept.n)
                             /\ (p.n < 84 * p.d \/ p.n > 240 * p.d)
                                   => t.years_text = <<"unknown">>

\* B1 with (10, -5), (20, -10), (30, -15) has been projected
C17_Reached ==
    /\ Rendered
    /\ widgets.x_axis_data = "Age"
    /\ widgets.battery = << <<"B1">> >>
    /\ Column(Usable(<<"B1">>), cAge) = <<IntV(10), IntV(20), IntV(30)>>
    /\ Column(Usable(<<"B1">>), cDegradation) = <<IntV(-5), IntV(-10), IntV(-15)>>
    /\ outcome.result_texts[1].years_text = <<"unknown">>

-----------------------------------------------------------------------------
(* Properties of the Performance page and of empty results *)

\* C18: after the speed filter the speeds of the kept rows of every file
\* are strictly increasing in row order: a row is kept only if its speed
\* exceeds the speed of the previous kept row.
C18_SpeedMonotonic ==
    page.state = "plotted" =>
        \A k \in 1..Len(page.plot_data) :
            \A r \in 1..(Len(page.plot_data[k].X) - 1) :
                ValLt(page.plot_data[k].X[r], page.plot_data[k].X[r + 1])

\* the file with the speeds 10, 20, 15, 30 has been plotted with the rows
\* of 10, 20 and 30
C18_Reached ==
    /\ page.state = "plotted"
    /\ Len(telemetry) = 1
    /\ Column(telemetry[1].df, <<"Speed">>) = <<IntV(10), IntV(20), IntV(15), IntV(30)>>
    /\ Len(page.plot_data) = 1
    /\ page.plot_data[1].X = <<IntV(10), IntV(20), IntV(30)>>

\* C19: when no record survives the active filters (a username search that
\* matches no row of a complete sheet), the run of the dashboard ends
\* without an error.
C19_EmptyResult ==
    (/\ pc \in {"rendered", "crashed"}
     /\ data[1] = BaseHeader
     /\ ret.df.rows = << >>)
    => pc = "rendered"

\* the username search has matched no row of a sheet of two records and the
\* script body has been run on the empty dataset
C19_Reached ==
    /\ pc \in {"rendered", "crashed"}
    /\ data[1] = BaseHeader /\ Len(data) = 3
    /\ username = <<"zed">>
    /\ ret.kind = "return"
    /\ ret.df.rows = << >>

\* the requests for file i both succeed
Fetchable(i) == telemetry[i].meta = "ok" /\ telemetry[i].plot = "ok"

\* C20: an error of the network or of the parser while one file is fetched,
\* for its metadata or for the plot, does not end the run: that file is
\* skipped and the other files of the batch are still processed.
C20_FetchFailureIsolated ==
    page.state # "start" =>
        /\ page.err \notin {"ConnectionError", "ParserError"}
        /\ \A i \in 1..Len(telemetry) :
              ~Fetchable(i) =>
                  \A k \in 1..Len(page.plot_data) :
                      page.plot_data[k].name # telemetry[i].name
        /\ (page.state = "plotted" /\ \E i \in 1..Len(telemetry) : ~Fetchable(i))
              => \E i \in 1..Len(telemetry) :
                     /\ Fetchable(i)
                     /\ \E k \in 1..Len(page.plot_data) :
                            page.plot_data[k].name = telemetry[i].name

\* the request for the second of two files has failed at the plot, after
\* the first file was fetched, and the page has run
C20_Reached ==
    /\ page.state # "start"
    /\ Len(telemetry) = 2
    /\ Fetchable(1)
    /\ telemetry[2].meta = "ok"
    /\ telemetry[2].plot = "ConnectionError"
    /\ Len(page.filtered_file_info) = 2

-----------------------------------------------------------------------------
(* Properties of the column alignment, of the second fit, of the caches *)

\* the positions of the header cells that line 71 keeps, in order
KeptPositions(header) ==
    SelectSeq([i \in 1..Len(header) |-> i], LAMBDA i :
        header[i] # << >> /\ header[i][1] # "_" /\ header[i] \notin exclude_columns)

\* C28: every kept column of a returned record holds the cell found at
\* that column's own position in the source row (checked on the columns
\* after those of BaseHeader, whose cells fetch_data does not convert): the
\* k-th occurrence of a repeated header name carries the data of the k-th
\* source column and not the data of the first occurrence.
C28_ColumnAlignment ==
    (Fetched /\ ret.kind = "return" /\ InList(cUsername, data[1]))
    => \A k \in 1..Len(ret.df.cols) :
          KeptPositions(data[1])[k] > Len(BaseHeader)
          => \A r \in 1..Len(ret.df.rows) :
                ret.df.rows[r][k] = StrV(data[r + 1][KeptPositions(data[1])[k]])

\* a sheet whose header ends with A, A has been fetched: the column renamed
\* A_2 holds the cell of the first A
C28_Reached ==
    /\ Fetched /\ ret.kind = "return"
    /\ data = SheetWithExtra(<< <<"A">>, <<"A">> >>)
    /\ ret.df.cols[Len(ret.df.cols)] = <<"A", "_", "2">>
    /\ ret.df.rows[1][Len(ret.df.cols)] = StrV(<<"x", "1">>)

\* C27: when the X-axis is Odometer or Cycles and a selected battery has at
\* least 2 observations, its years result is the one of a fit of Degradation
\* against Age over the same observations, and the text of the battery has
\* both a years result and a distance result.
C27_SecondAgeFit ==
    (Rendered /\ widgets.x_axis_data \in {"Odometer", "Cycles"}) =>
        \A i \in 1..Len(widgets.battery) :
            Len(Usable(widgets.battery[i]).rows) >= 2 =>
                /\ outcome.result_texts[i].kind = "projection"
                /\ outcome.result_texts[i].years_text =
                       years_text(ValDiv(predicted_x_value(
                                             FitOn(widgets.battery[i], cAge)),
                                         IntV(12)))
                /\ outcome.result_texts[i].kilometers_text # None

\* with the X-axis on Odometer, B1 has been given a number of years from
\* its ages and a number of kilometers from its odometers
C27_Reached ==
    /\ Rendered
    /\ widgets.x_axis_data = "Odometer"
    /\ widgets.battery = << <<"B1">> >>
    /\ Len(Usable(<<"B1">>).rows) = 2
    /\ Len(outcome.result_texts[1].after) = 2
    /\ outcome.result_texts[1].years_text
           # years_text(ValDiv(predicted_x_value(FitOn(<<"B1">>, cOdometer)), IntV(12)))

\* file i has the columns SOC and Cell temp mid and no column Speed, and
\* both requests for it succeed
WithoutSpeed(i) ==
    /\ Fetchable(i)
    /\ HasCol(telemetry[i].df, <<"SOC">>)
    /\ HasCol(telemetry[i].df, <<"Cell temp mid">>)
    /\ ~HasCol(telemetry[i].df, <<"Speed">>)

\* C29: for a telemetry file that has SOC and Cell temp mid but no Speed
\* column the speed steps are skipped: the run does not end with an error
\* on that file, and the files after it are still processed.
C29_NoSpeedChannel ==
    (/\ page.state # "start"
     /\ \E k \in 1..Len(page.filtered_file_info) :
           WithoutSpeed(page.filtered_file_info[k].file))
    => /\ page.err # "KeyError"
       /\ (\A i \in 1..Len(telemetry) : Fetchable(i)) => page.state # "crashed"

\* a file without Speed is the first of two files that passed the sliders,
\* a channel is selected, and the page has run
C29_Reached ==
    /\ page.state # "start"
    /\ Len(telemetry) = 2
    /\ WithoutSpeed(1) /\ Fetchable(2)
    /\ Len(page.filtered_file_info) = 2
    /\ page.err = "KeyError"

\* C21: when the metadata cache file is missing or its content is not
\* valid JSON, load_metadata_cache yields an empty cache and the run goes
\* on: it does not end with the error of the parser, and the cache holds
\* only what the run itself has stored.
C21_CacheFallback ==
    (page.state # "start" /\ metadata_file.kind \in {"missing", "corrupt"})
    => /\ page.err # "JSONDecodeError"
       /\ DOMAIN page.metadata_cache
             \subseteq {page.requests[k] : k \in 1..Len(page.requests)}

\* the page has run on a folder of one file with a cache file that is not
\* JSON, and the run has ended at line 33
C21_Reached ==
    /\ page.state = "crashed"
    /\ page.err = "JSONDecodeError"
    /\ metadata_file.kind = "corrupt"
    /\ Len(telemetry) = 1
    /\ page.requests = << >>

\* the file i after the fill of line 346
Filled(i) ==
    ffill_bfill(telemetry[i].df,
                {telemetry[i].df.cols[c] : c \in 1..Len(telemetry[i].df.cols)})

\* every row of the filled file i has readings in the ranges of the plot,
\* and the speeds increase from row to row
Clean(i) ==
    /\ HasCol(Filled(i), <<"Speed">>)
    /\ \A r \in 1..Len(Filled(i).rows) :
          LET v(name) == At(Filled(i), Filled(i).rows[r], name)
          IN  /\ ValLe(IntV(0), v(<<"SOC">>)) /\ ValLe(v(<<"SOC">>), IntV(101))
              /\ ValLe(IntV(0), v(<<"Cell temp mid">>))
              /\ ValLe(v(<<"Cell temp mid">>), IntV(70))
              /\ ValLe(IntV(0), v(<<"Speed">>)) /\ ValLe(v(<<"Speed">>), IntV(210))
              /\ r > 1 => ValLt(At(Filled(i), Filled(i).rows[r - 1], <<"Speed">>),
                                v(<<"Speed">>))

\* the sub-channel columns of a combined channel
SubChannels(column) ==
    IF column = "Combined Motor Power [kW]"
    THEN << <<"F power">>, <<"R power">> >>
    ELSE << <<"F torque">>, <<"R torque">> >>

\* what the sub-channel c gives to row r of the filled file i: its reading,
\* or zero where the column is absent or the reading is missing
Contribution(i, c, r) ==
    IF HasCol(Filled(i), c) /\ ~IsNaN(At(Filled(i), Filled(i).rows[r], c))
    THEN At(Filled(i), Filled(i).rows[r], c) ELSE IntV(0)

\* the rows of the filled file i where a sub-channel of the column has a
\* reading
RowsWithData(i, column) ==
    SelectSeq([r \in 1..Len(Filled(i).rows) |-> r], LAMBDA r :
        \E k \in 1..2 :
            /\ HasCol(Filled(i), SubChannels(column)[k])
            /\ ~IsNaN(At(Filled(i), Filled(i).rows[r], SubChannels(column)[k])))

\* C24: for a selected combined channel (motor power or motor torque) and a
\* plotted file whose rows all pass the range and speed filters, the file
\* gives a series with one value for each row where a sub-channel has a
\* reading, the sum of the sub-channel columns, an absent or missing
\* sub-channel counting as zero: a file where only one of the two
\* sub-channels has data still yields its rows.
C24_Combination ==
    page.state = "plotted" =>
        \A f \in 1..Len(page.filtered_file_info) :
            \A j \in 1..Len(page.ui.selected_columns) :
                LET i == page.filtered_file_info[f].file
                    column == page.ui.selected_columns[j]
                    rows == RowsWithData(i, column)
                IN  (/\ column \in {"Combined Motor Power [kW]",
                                    "Combined Motor Torque [Nm]"}
                     /\ Clean(i)
                     /\ rows # << >>)
                    => \E k \in 1..Len(page.plot_data) :
                          /\ page.plot_data[k].name = telemetry[i].name
                          /\ page.plot_data[k].channel = column
                          /\ page.plot_data[k].Y =
                                [q \in 1..Len(rows) |->
                                    ValAdd(Contribution(i, SubChannels(column)[1], rows[q]),
                                           Contribution(i, SubChannels(column)[2], rows[q]))]

\* the combined motor torque of a file has been plotted whose F torque is
\* 100 in its three rows and whose R torque column is there without a
\* reading: the series has no row
C24_Reached ==
    /\ page.state = "plotted"
    /\ page.ui.selected_columns = << "Combined Motor Torque [Nm]" >>
    /\ Len(telemetry) = 1
    /\ HasCol(telemetry[1].df, <<"F torque">>)
    /\ HasCol(telemetry[1].df, <<"R torque">>)
    /\ Column(telemetry[1].df, <<"F torque">>) = <<IntV(100), IntV(100), IntV(100)>>
    /\ Column(telemetry[1].df, <<"R torque">>) = <<NaN, NaN, NaN>>
    /\ Len(page.plot_data) = 1
    /\ page.plot_data[1].Y = << >>

\* the reading v is a number within [lo, hi]
Within(v, lo, hi) == IsNum(v) /\ lo * v.d <= v.n /\ v.n <= hi * v.d

\* C25: every row kept for plotting has its state of charge within
\* [0, 101], its cell temperature within [0, 70] and its speed within
\* [0, 210], bounds included; every row from which the first valid
\* metadata of a file was taken has its state of charge within [-5, 101]
\* and its cell temperature within [-30, 70].
C25_RangeFilter ==
    /\ \A k \in 1..Len(page.plot_data) :
          \A r \in 1..Len(page.plot_data[k].df.rows) :
              LET v(name) == At(page.plot_data[k].df, page.plot_data[k].df.rows[r], name)
              IN  /\ Within(v(<<"SOC">>), 0, 101)
                  /\ Within(v(<<"Cell temp mid">>), 0, 70)
                  /\ Within(v(<<"Speed">>), 0, 210)
    /\ \A k \in 1..Len(page.file_info) :
          page.file_info[k].row # << >> =>
              /\ Within(page.file_info[k].row[1], -5, 101)
              /\ Within(page.file_info[k].row[2], -30, 70)

\* a file with the states of charge -7, -3, 0 and 101 has been plotted: its
\* metadata come from the row of -3 and its series has the rows of 0 and 101
C25_Reached ==
    /\ page.state = "plotted"
    /\ Len(telemetry) = 1
    /\ Column(telemetry[1].df, <<"SOC">>) = <<IntV(-7), IntV(-3), IntV(0), IntV(101)>>
    /\ page.file_info[1].row[1] = IntV(-3)
    /\ Len(page.plot_data) = 1
    /\ Column(page.plot_data[1].df, <<"SOC">>) = <<IntV(0), IntV(101)>>

\* the columns of a telemetry file that match a channel
ColumnsOf(column) ==
    CASE column = "Max Discharge Power [kW]" -> {<<"Max discharge power">>}
      [] column = "Battery Power [kW]" -> {<<"Battery power">>}
      [] column = "Battery Current [A]" -> {<<"Battery current">>}
      [] column = "Battery Voltage [V]" -> {<<"Battery voltage">>}
      [] column \in {"Front/Rear Motor Power [kW]", "Combined Motor Power [kW]"}
            -> {<<"F power">>, <<"R power">>}
      [] OTHER -> {<<"F torque">>, <<"R torque">>}

\* file i has no column that matches the channel
NoColumn(i, column) ==
    \A c \in ColumnsOf(column) : ~HasCol(telemetry[i].df, c)

\* the series that file i has added to plot_data for the channel
SeriesOf(i, column) ==
    {k \in 1..Len(page.plot_data) :
        /\ page.plot_data[k].name = telemetry[i].name
        /\ page.plot_data[k].channel = column}

\* C26: when a selected channel has no matching column in a file of the
\* filtered set, the file adds no series for that channel and a warning is
\* issued for it, and the other files of the filtered set that have the
\* channel still add their series.
C26_MissingChannel ==
    page.state = "plotted" =>
        \A f \in 1..Len(page.filtered_file_info) :
            \A j \in 1..Len(page.ui.selected_columns) :
                LET i == page.filtered_file_info[f].file
                    column == page.ui.selected_columns[j]
                IN  NoColumn(i, column) =>
                        /\ SeriesOf(i, column) = {}
                        /\ \E k \in 1..Len(page.warnings) :
                              /\ page.warnings[k].name = telemetry[i].name
                              /\ page.warnings[k].channel = column
                        /\ \A g \in 1..Len(page.filtered_file_info) :
                              ~NoColumn(page.filtered_file_info[g].file, column)
                                  => SeriesOf(page.filtered_file_info[g].file, column) # {}

\* the front and rear motor torque of a file without a torque column has
\* been asked for: the run has ended with no series, no warning and one
\* informational message
C26_Reached ==
    /\ page.state = "plotted"
    /\ page.ui.selected_columns = << "Front/Rear Motor Torque [Nm]" >>
    /\ Len(telemetry) = 1
    /\ NoColumn(1, "Front/Rear Motor Torque [Nm]")
    /\ page.plot_data = << >>
    /\ page.warnings = << >>
    /\ Len(page.infos) = 1

\* C30: for a file identifier that is in the metadata cache,
\* fetch_csv_headers_and_first_valid_values returns the stored SOC and cell
\* temperature without a request to the file server; after a normal return
\* for an identifier the cache holds an entry equal to the returned values,
\* and no later call for that identifier, in this run of the page or in a
\* later one, downloads the file again.
C30_CacheUse ==
    page.state # "start" =>
        /\ \A k \in 1..Len(page.requests) :
              /\ page.requests[k] \notin page.before
              /\ metadata_file.kind = "json" /\ page.saved
                    => page.requests[k] \in DOMAIN metadata_file.cache
        /\ \A k \in 1..Len(page.file_info) :
              LET n == telemetry[page.file_info[k].file].name
              IN  /\ n \in DOMAIN page.metadata_cache
                  /\ page.metadata_cache[n].valid
                  /\ page.metadata_cache[n].SOC = page.file_info[k].SOC
                  /\ page.metadata_cache[n].temp = page.file_info[k].temp

\* the first file of two was downloaded and returned for in an earlier run
\* that the failed request for the second file ended before line 265, and
\* the run after it has downloaded the first file again
C30_Reached ==
    /\ page.state = "crashed"
    /\ Len(telemetry) = 2
    /\ telemetry[2].meta = "ConnectionError"
    /\ telemetry[1].name \in page.before
    /\ page.requests = <<telemetry[1].name, telemetry[2].name>>
    /\ metadata_file.kind = "missing"

\* the status cell of the row r of the frame of the scatter plot
PackStatus(r) ==
    At(outcome.scatter, outcome.scatter.rows[r], ret.bpc)

\* C22: a record is drawn with the marker of a replaced pack (the star) if
\* and only if its battery pack status is exactly "Replaced", which is the
\* test of the "Hide Replaced Packs" filter: every record drawn with the
\* star is one the filter would hide and the other way round, and with the
\* filter on no star is drawn.
C22_ReplacedClassification ==
    (Rendered /\ ret.bpc # None) =>
        \A r \in 1..Len(outcome.scatter.rows) :
            /\ At(outcome.scatter, outcome.scatter.rows[r], <<"Marker", " ", "Symbol">>)
                   = StrV(<<"star">>)
               <=> PackStatus(r) = StrV(<<"Replaced">>)
            /\ widgets.hide_replaced_packs
                   => At(outcome.scatter, outcome.scatter.rows[r],
                         <<"Marker", " ", "Symbol">>) # StrV(<<"star">>)

\* with "Hide Replaced Packs" on, a record whose status is "Replaced "
\* (with a space after it) has been kept and drawn with the star
C22_Reached ==
    /\ Rendered
    /\ ret.bpc # None
    /\ widgets.hide_replaced_packs
    /\ \E r \in 1..Len(outcome.scatter.rows) :
          /\ PackStatus(r) = StrV(<<"Replaced", " ">>)
          /\ At(outcome.scatter, outcome.scatter.rows[r], <<"Marker", " ", "Symbol">>)
                 = StrV(<<"star">>)

\* the calls i and j of fetch_data, i before j, have the same argument and
\* no clearing of the cache lies between them
SameEntry(i, j) ==
    /\ i < j
    /\ session.calls[i].arg = session.calls[j].arg
    /\ session.calls[i].cleared = session.calls[j].cleared

\* at the call j the expiry of every earlier contact for its argument has
\* passed, or the cache has been cleared since: the call contacts the remote
RefetchedWhenStale ==
    \A j \in 1..Len(session.calls) :
        (\A i \in 1..(j - 1) :
            (SameEntry(i, j) /\ session.calls[i].contacted)
                => session.calls[j].at - session.calls[i].at > 300)
        => session.calls[j].contacted

=============================================================================
